---- MODULE Spec2Model ----
(***************************************************************************)
(* Credential and session core of the guard-management API:                *)
(*   - JWT access/refresh tokens      (services/jwt_service.py)            *)
(*   - token -> live account -> role  (services/auth_service.py)           *)
(*   - OTP-gated password change      (routes/super_admin_routes.py)       *)
(* Time is counted in whole minutes.  A request handler runs at one        *)
(* instant: every datetime.utcnow() it reads is the same value `now`.      *)
(***************************************************************************)
EXTENDS Integers, Sequences, FiniteSets, TLC

VARIABLES
    now,          \* datetime.utcnow(), in minutes
    database,     \* database.database: "connected" or "none"
    users,        \* users collection (ADMIN and SUPER_ADMIN accounts), _id -> document
    supervisors,  \* supervisors collection, _id -> document
    guards,       \* guards collection, _id -> document
    otp_tokens,   \* otp_tokens collection, a set of documents
    tokens,       \* tokens handed out so far, each tagged with the function that made it
    response,     \* what the last request (or function application) answered
    issue_log,    \* history: contact -> time of its last successful OTP issue
    pwd_env,      \* the hashing backends of this process (passlib, bcrypt)
    hash_run,     \* the password under study and what hashing and verifying it gave
    settings,     \* config.settings: the configured OTP parameters
    requests      \* the requests in flight, each between two awaits of its handler

vars == <<now, database, users, supervisors, guards, otp_tokens, tokens, response,
          issue_log, pwd_env, hash_run, settings, requests>>

hasher_vars == <<pwd_env, hash_run>>

flight_vars == <<settings, requests>>

----------------------------------------------------------------------------
(* Bounds of the model *)

MaxTime == 11          \* the clock of the OTP specification stops here
MaxFineTime == 1       \* up to here the clock visits every minute
MaxOtpValue == 1       \* secrets.randbelow draws from 0..MaxOtpValue
MaxTokens == 2         \* tokens created in the token specification
TokenSlack == 1        \* minutes explored on either side of a token lifetime
PadSlack == 2          \* passwords start this many bytes or fewer below the bcrypt limit
MaxTail == 2           \* characters that follow the padding of a password
MaxLogins == 2         \* sessions opened in the login specification
MaxLoginTime == 1      \* the clock of the login specification stops here
MaxAdded == 2          \* accounts added to each collection
MaxConfigDelta == 1    \* a configured OTP parameter is at most this far above its default

(* Program constants *)

OtpLifetimeMinutes == 10            \* timedelta(minutes=10)
OtpRateWindowMinutes == 1           \* timedelta(minutes=1)
OtpAttemptCap == 3                  \* otp_record["attempts"] >= 3
ACCESS_TOKEN_EXPIRE_MINUTES == 30
REFRESH_TOKEN_EXPIRE_DAYS == 7
MinutesPerDay == 1440               \* timedelta(days=...) in minutes

SECRET_KEY == "server-secret"
ALGORITHM == "HS256"

Absent == "<absent>"                \* a key a dict does not have (dict.get -> None)

Never == 0 - 1                      \* a time that has not been recorded

\* Settings: OTP_EXPIRE_MINUTES, OTP_MAX_ATTEMPTS and OTP_RATE_LIMIT_MINUTES as
\* the environment leaves them (the defaults of os.getenv)
DefaultSettings ==
    [OTP_EXPIRE_MINUTES |-> 10, OTP_MAX_ATTEMPTS |-> 3, OTP_RATE_LIMIT_MINUTES |-> 1]

----------------------------------------------------------------------------
(* Passwords.  A password is a sequence of characters; bcrypt works on its  *)
(* UTF-8 bytes and keeps the salt in the hash string.                       *)

Characters == {"a", "x", "e_acute", "euro"}

\* the UTF-8 bytes of one character: U+0061, U+0078, U+00E9, U+20AC
utf8_char(c) ==
    CASE c = "a" -> <<97>>
      [] c = "x" -> <<120>>
      [] c = "e_acute" -> <<195, 169>>
      [] c = "euro" -> <<226, 130, 172>>

\* str.encode('utf-8'): the bytes of the characters, in order (the string is
\* encoded half by half, which keeps the evaluation shallow)
RECURSIVE str_encode(_)
str_encode(s) ==
    IF s = <<>> THEN <<>>
    ELSE IF Len(s) = 1 THEN utf8_char(s[1])
    ELSE LET half == Len(s) \div 2
         IN str_encode(SubSeq(s, 1, half)) \o str_encode(SubSeq(s, half + 1, Len(s)))

\* the length of the sequence a lead byte announces; 0 for a byte that cannot
\* start a character
lead_width(b) ==
    IF b < 128 THEN 1
    ELSE IF b >= 192 /\ b < 224 THEN 2
    ELSE IF b >= 224 /\ b < 240 THEN 3
    ELSE IF b >= 240 /\ b < 248 THEN 4
    ELSE 0

\* what the decoder yields at position i of b: the character whose bytes
\* start there, or nothing when the bytes there do not form a whole character
decoded_at(b, i) ==
    LET w == lead_width(b[i])
        whole == w > 0 /\ i + w - 1 <= Len(b)
                 /\ \E c \in Characters : utf8_char(c) = SubSeq(b, i, i + w - 1)
    IN IF whole
       THEN <<CHOOSE c \in Characters : utf8_char(c) = SubSeq(b, i, i + w - 1)>>
       ELSE <<>>

\* the characters decoded from positions lo..hi of b, in order
RECURSIVE decode_range(_, _, _)
decode_range(b, lo, hi) ==
    IF lo > hi THEN <<>>
    ELSE IF lo = hi THEN decoded_at(b, lo)
    ELSE LET mid == (lo + hi) \div 2
         IN decode_range(b, lo, mid) \o decode_range(b, mid + 1, hi)

\* bytes.decode('utf-8', errors='ignore'): bytes that do not form a whole
\* character are dropped
bytes_decode_ignore(b) == decode_range(b, 1, Len(b))

BcryptMaxBytes == 72                \* bcrypt's limit on the password, in bytes

\* variant: the cut is one byte short
first_71_bytes(password_bytes) ==
    SubSeq(password_bytes, 1,
           IF Len(password_bytes) > BcryptMaxBytes - 1 THEN BcryptMaxBytes - 1
                                                       ELSE Len(password_bytes))

\* password_bytes[:72]
first_72_bytes(password_bytes) ==
    SubSeq(password_bytes, 1,
           IF Len(password_bytes) > BcryptMaxBytes THEN BcryptMaxBytes
                                                   ELSE Len(password_bytes))

NoHash == [scheme |-> "none", rounds |-> 0, salt |-> "", digest |-> <<>>]

\* a stored value that is not a bcrypt hash string
MalformedHash == [scheme |-> "malformed", rounds |-> 0, salt |-> "", digest |-> <<>>]

\* bcrypt.hashpw(password_bytes, bcrypt.gensalt(rounds=12)); the algorithm
\* keys on at most 72 bytes
bcrypt_hashpw(password_bytes, salt) ==
    [scheme |-> "bcrypt", rounds |-> 12, salt |-> salt,
     digest |-> first_72_bytes(password_bytes)]

\* bcrypt.checkpw(password_bytes, hash_bytes): hash again with the salt of
\* the stored hash and compare
bcrypt_checkpw(password_bytes, hash_bytes) ==
    bcrypt_hashpw(password_bytes, hash_bytes.salt) = hash_bytes

\* The backends as this process finds them.  use_raw_bcrypt is set at import
\* when passlib cannot be set up; passlib and bcrypt say whether a call into
\* the library raises; long_input says what the bcrypt backend behind passlib
\* does with more than 72 bytes (older releases cut silently, newer ones raise).
PwdEnvs ==
    {e \in [use_raw_bcrypt : BOOLEAN, passlib : {"ok", "raises"},
            bcrypt : {"ok", "raises"}, long_input : {"truncates", "raises"}] :
        /\ e.use_raw_bcrypt => (e.passlib = "raises" /\ e.bcrypt = "ok")
        /\ e.passlib = "raises" => e.long_input = "truncates"
        /\ e.long_input = "raises" => e.bcrypt = "ok"}

HealthyEnv == [use_raw_bcrypt |-> FALSE, passlib |-> "ok", bcrypt |-> "ok",
              long_input |-> "truncates"]

\* what a hashing call gives: a hash or an exception, and the backends it tried
Hashed(value, tried) == [raised |-> FALSE, value |-> value, tried |-> tried]
HashRaised(tried) == [raised |-> TRUE, value |-> NoHash, tried |-> tried]

\* what a verifying call gives: a boolean or an exception, and the backends tried
Verdict(value, tried) == [raised |-> FALSE, value |-> value, tried |-> tried]
VerifyRaised(tried) == [raised |-> TRUE, value |-> FALSE, tried |-> tried]

\* pwd_context.hash(secret)
pwd_context_hash(secret, salt, env) ==
    IF env.passlib = "raises" THEN HashRaised(<<"passlib">>)
    ELSE IF Len(str_encode(secret)) > BcryptMaxBytes /\ env.long_input = "raises"
    THEN HashRaised(<<"passlib">>)
    ELSE Hashed(bcrypt_hashpw(str_encode(secret), salt), <<"passlib">>)

\* pwd_context.verify(secret, hash)
pwd_context_verify(secret, hash, env) ==
    IF env.passlib = "raises" THEN VerifyRaised(<<"passlib">>)
    ELSE IF hash.scheme # "bcrypt" THEN VerifyRaised(<<"passlib">>)
    ELSE IF Len(str_encode(secret)) > BcryptMaxBytes /\ env.long_input = "raises"
    THEN VerifyRaised(<<"passlib">>)
    ELSE Verdict(bcrypt_checkpw(str_encode(secret), hash), <<"passlib">>)

\* JWTService._hash_with_raw_bcrypt: any exception leaves as ValueError
hash_with_raw_bcrypt(password, salt, env) ==
    IF env.bcrypt = "raises" THEN HashRaised(<<"bcrypt">>)
    ELSE Hashed(bcrypt_hashpw(first_72_bytes(str_encode(password)), salt), <<"bcrypt">>)

\* JWTService._verify_with_raw_bcrypt: any exception is answered False
verify_with_raw_bcrypt(plain_password, hashed_password, env) ==
    IF env.bcrypt = "raises" THEN Verdict(FALSE, <<"bcrypt">>)
    ELSE IF hashed_password.scheme # "bcrypt" THEN Verdict(FALSE, <<"bcrypt">>)
    ELSE Verdict(bcrypt_checkpw(first_72_bytes(str_encode(plain_password)),
                                hashed_password),
                 <<"bcrypt">>)

\* JWTService.hash_password
hash_password(password, salt, env) ==
    IF env.use_raw_bcrypt THEN hash_with_raw_bcrypt(password, salt, env)
    ELSE LET processed_password ==
                 IF Len(str_encode(password)) > BcryptMaxBytes
                 THEN bytes_decode_ignore(SubSeq(str_encode(password), 1, BcryptMaxBytes))
                 ELSE password
             primary == pwd_context_hash(processed_password, salt, env)
             fallback == hash_with_raw_bcrypt(password, salt, env)
         IN IF ~primary.raised THEN primary
            ELSE [fallback EXCEPT !.tried = primary.tried \o fallback.tried]

\* variant: an exception of the first backend leaves the function
verify_password_no_fallback(plain_password, hashed_password, env) ==
    IF env.use_raw_bcrypt
    THEN verify_with_raw_bcrypt(plain_password, hashed_password, env)
    ELSE pwd_context_verify(plain_password, hashed_password, env)

\* JWTService.verify_password
verify_password(plain_password, hashed_password, env) ==
    IF env.use_raw_bcrypt
    THEN verify_with_raw_bcrypt(plain_password, hashed_password, env)
    ELSE LET primary == pwd_context_verify(plain_password, hashed_password, env)
             fallback == verify_with_raw_bcrypt(plain_password, hashed_password, env)
         IN IF ~primary.raised THEN primary
            ELSE [fallback EXCEPT !.tried = primary.tried \o fallback.tried]

\* the password under study, its hash, the candidate verified against the
\* hash and the verdict
NoRun == [op |-> "none", password |-> <<>>, hashed |-> HashRaised(<<>>),
          candidate |-> <<>>, against |-> NoHash, verdict |-> VerifyRaised(<<>>)]

\* the passwords of the requests
Passwords == {<<"x", "a">>}
Salts == {"s1"}

----------------------------------------------------------------------------
(* One-time codes *)

\* f"{n:06d}": the decimal digits of n, zero-padded on the left to width 6
RECURSIVE Digits(_)
Digits(n) == IF n < 10 THEN <<n>> ELSE Append(Digits(n \div 10), n % 10)

RECURSIVE ZeroPad(_, _)
ZeroPad(s, width) == IF Len(s) >= width THEN s ELSE ZeroPad(<<0>> \o s, width)

generate_otp(n) == ZeroPad(Digits(n), 6)

sha256_hexdigest(s) == [alg |-> "sha256", preimage |-> s]

hash_otp(otp) == sha256_hexdigest(otp)

\* variant: compares the algorithm tag only, so every code matches
verify_otp_any_code(plain_otp, hashed_otp) ==
    sha256_hexdigest(plain_otp).alg = hashed_otp.alg

verify_otp(plain_otp, hashed_otp) == sha256_hexdigest(plain_otp) = hashed_otp

OtpValues == 0..MaxOtpValue
OtpStrings == {generate_otp(n) : n \in OtpValues}

----------------------------------------------------------------------------
(* JSON web tokens (PyJWT) *)

Roles == {"SUPER_ADMIN", "ADMIN", "SUPERVISOR", "GUARD"}

NoPayload == [user_id |-> Absent, email |-> Absent, phone |-> Absent, role |-> Absent,
              type |-> Absent, exp |-> 0]

HS256(key, payload) == [alg |-> ALGORITHM, key |-> key, msg |-> payload]

\* jwt.encode: three segments, the last one the signature of the first two
jwt_encode(payload, key) ==
    [segments |-> 3, payload |-> payload, sig |-> HS256(key, payload)]

\* variant: the exp claim is not looked at
jwt_decode_no_expiry(token, key, t) ==
    IF token.segments # 3
    THEN [exc |-> "DecodeError", payload |-> NoPayload]
    ELSE IF token.sig # HS256(key, token.payload)
    THEN [exc |-> "InvalidSignatureError", payload |-> NoPayload]
    ELSE [exc |-> "none", payload |-> token.payload]

\* jwt.decode: structure, then signature, then the exp claim
jwt_decode(token, key, t) ==
    IF token.segments # 3
    THEN [exc |-> "DecodeError", payload |-> NoPayload]
    ELSE IF token.sig # HS256(key, token.payload)
    THEN [exc |-> "InvalidSignatureError", payload |-> NoPayload]
    ELSE IF token.payload.exp <= t
    THEN [exc |-> "ExpiredSignatureError", payload |-> NoPayload]
    ELSE [exc |-> "none", payload |-> token.payload]

create_access_token(data, t) ==
    jwt_encode([data EXCEPT !.exp = t + ACCESS_TOKEN_EXPIRE_MINUTES,
                            !.type = "access"],
               SECRET_KEY)

create_refresh_token(user_id, t) ==
    jwt_encode([NoPayload EXCEPT !.user_id = user_id,
                                 !.type = "refresh",
                                 !.exp = t + REFRESH_TOKEN_EXPIRE_DAYS * MinutesPerDay],
               SECRET_KEY)

None == [kind |-> "None", payload |-> NoPayload, exc |-> "none"]

\* variant: the type claim is not looked at
verify_token_untyped(token, token_type, t) ==
    LET d == jwt_decode(token, SECRET_KEY, t) IN
    IF d.exc = "none"
    THEN [kind |-> "payload", payload |-> d.payload, exc |-> "none"]
    ELSE IF d.exc = "ExpiredSignatureError"
    THEN None
    ELSE [kind |-> "raise", payload |-> NoPayload, exc |-> "AttributeError"]

\* The two handlers name jwt.ExpiredSignatureError and jwt.JWTError.  PyJWT
\* has no attribute JWTError, so an exception that is not ExpiredSignatureError
\* makes the second except clause itself fail with AttributeError.
verify_token(token, token_type, t) ==
    LET d == jwt_decode(token, SECRET_KEY, t) IN
    IF d.exc = "none"
    THEN IF d.payload.type # token_type
         THEN None
         ELSE [kind |-> "payload", payload |-> d.payload, exc |-> "none"]
    ELSE IF d.exc = "ExpiredSignatureError"
    THEN None
    ELSE [kind |-> "raise", payload |-> NoPayload, exc |-> "AttributeError"]

\* the payload login puts into the access token
login_token_data(id, doc, role) ==
    [NoPayload EXCEPT !.user_id = id, !.email = doc.email, !.phone = doc.phone,
                      !.role = role]

\* tokens nobody issued: a foreign signature, a payload edited after signing,
\* a string that is not a JWT
NoToken == [segments |-> 0, payload |-> NoPayload, sig |-> HS256("", NoPayload)]

Minted(by, token) == [by |-> by, token |-> token]

ForgedTokens(t) ==
    LET p == [NoPayload EXCEPT !.user_id = "u1", !.email = "sa1@lh.io.in",
                               !.role = "SUPER_ADMIN", !.type = "access",
                               !.exp = t + ACCESS_TOKEN_EXPIRE_MINUTES]
    IN { Minted("foreign-key", jwt_encode(p, "attacker-key")),
         Minted("edited-payload",
                [segments |-> 3, payload |-> p,
                 sig |-> HS256(SECRET_KEY, [p EXCEPT !.role = "GUARD"])]),
         Minted("malformed",
                [segments |-> 2, payload |-> NoPayload, sig |-> HS256("", NoPayload)]) }

----------------------------------------------------------------------------
(* Authentication dependencies *)

NoUser == [email |-> Absent, phone |-> Absent, role |-> Absent, state |-> Absent,
           passwordHash |-> NoHash, isActive |-> FALSE, lastLogin |-> Never,
           supervisorId |-> Absent]

Denied(status, detail) ==
    [ok |-> FALSE, status |-> status, detail |-> detail, id |-> Absent, user |-> NoUser]

\* the collection get_current_user reads for a role claim
collection_of(role, us, ss, gs) ==
    CASE role \in {"ADMIN", "SUPER_ADMIN"} -> us
      [] role = "SUPERVISOR" -> ss
      [] role = "GUARD" -> gs

\* variant: the isActive flag of the stored account is not looked at
get_current_user_flag_ignored(token, t, db, us, ss, gs) ==
    IF token = NoToken THEN Denied(401, "Authentication required") ELSE
    LET v == verify_token(token, "access", t) IN
    IF v.kind = "raise" THEN Denied(500, "Internal Server Error") ELSE
    IF v.kind = "None" THEN Denied(401, "Invalid or expired token") ELSE
    LET user_id == v.payload.user_id
        role == v.payload.role
    IN
    IF user_id = Absent \/ role = Absent THEN Denied(401, "Invalid token payload") ELSE
    IF role \notin Roles THEN Denied(401, "Invalid user role") ELSE
    IF db # "connected" THEN Denied(503, "Database not available") ELSE
    LET collection == collection_of(role, us, ss, gs) IN
    IF user_id \notin DOMAIN collection THEN Denied(401, "User not found") ELSE
    [ok |-> TRUE, status |-> 200, detail |-> "",
     id |-> user_id, user |-> [collection[user_id] EXCEPT !.role = role]]

get_current_user(token, t, db, us, ss, gs) ==
    IF token = NoToken THEN Denied(401, "Authentication required") ELSE
    LET v == verify_token(token, "access", t) IN
    IF v.kind = "raise" THEN Denied(500, "Internal Server Error") ELSE
    IF v.kind = "None" THEN Denied(401, "Invalid or expired token") ELSE
    LET user_id == v.payload.user_id
        role == v.payload.role
    IN
    IF user_id = Absent \/ role = Absent THEN Denied(401, "Invalid token payload") ELSE
    IF role \notin Roles THEN Denied(401, "Invalid user role") ELSE
    IF db # "connected" THEN Denied(503, "Database not available") ELSE
    LET collection == collection_of(role, us, ss, gs) IN
    IF user_id \notin DOMAIN collection THEN Denied(401, "User not found") ELSE
    IF ~collection[user_id].isActive THEN Denied(401, "Account is not active") ELSE
    [ok |-> TRUE, status |-> 200, detail |-> "",
     id |-> user_id, user |-> [collection[user_id] EXCEPT !.role = role]]

get_current_super_admin(token, t, db, us, ss, gs) ==
    LET current_user == get_current_user(token, t, db, us, ss, gs) IN
    IF ~current_user.ok THEN current_user
    ELSE IF current_user.user.role # "SUPER_ADMIN"
    THEN Denied(403, "Super admin access required")
    ELSE current_user

----------------------------------------------------------------------------
(* The otp_tokens collection *)

PASSWORD_CHANGE == "PASSWORD_CHANGE"

\* insert_one gives the document an _id no stored document has: an ObjectId
\* is the creation time followed by a counter
NewObjectId(coll, t) ==
    LET free == {k \in 0..Cardinality(coll) : \A d \in coll : d.id # [ts |-> t, ctr |-> k]}
    IN [ts |-> t, ctr |-> CHOOSE k \in free : \A j \in free : k <= j]

Matching(coll, email, purpose) ==
    {d \in coll : d.email = email /\ d.purpose = purpose}

\* variant: the old challenges are left in place
delete_many_skipped(coll, email, purpose) == coll

delete_many(coll, email, purpose) == coll \ Matching(coll, email, purpose)

\* delete_one removes a single matching document; which one is the store's choice
delete_one(coll, email, purpose) ==
    IF Matching(coll, email, purpose) = {}
    THEN {coll}
    ELSE {coll \ {d} : d \in Matching(coll, email, purpose)}

\* variant: the delete matches nothing
delete_by_id_no_match(coll, id) == coll

delete_by_id(coll, id) == {d \in coll : d.id # id}

\* find_one with "createdAt": {"$gte": utcnow() - timedelta(minutes=1)}
find_recent(coll, email, purpose, t) ==
    {d \in Matching(coll, email, purpose) : d.createdAt >= t - OtpRateWindowMinutes}

\* variant: the comparison is turned round
otp_expired_inverted(otp_record, t) == t < otp_record.expiresAt

\* datetime.utcnow() > otp_record["expiresAt"]
otp_expired(otp_record, t) == t > otp_record.expiresAt

\* variant: strict comparison, one more attempt allowed
attempts_exceeded_strict(otp_record) == otp_record.attempts > OtpAttemptCap

\* otp_record["attempts"] >= 3
attempts_exceeded(otp_record) == otp_record.attempts >= OtpAttemptCap

\* variant: the update has no _id filter
inc_attempts_unfiltered(coll, id) ==
    {[d EXCEPT !.attempts = @ + 1] : d \in coll}

inc_attempts(coll, id) ==
    {IF d.id = id THEN [d EXCEPT !.attempts = @ + 1] ELSE d : d \in coll}

\* EmailService.send_otp_email: every path of the function, delivered or not,
\* ends in `return True`
SmtpOutcomes == {"sent", "send_failed", "exception"}

\* variant: a failed delivery is reported to the caller
send_otp_email_reports_failure(outcome) == outcome = "sent"

send_otp_email(outcome) ==
    CASE outcome = "sent" -> TRUE
      [] outcome = "send_failed" -> TRUE
      [] outcome = "exception" -> TRUE

----------------------------------------------------------------------------
(* Requests *)

\* op, status and detail are the request and its HTTP answer; note records what
\* the caller cannot see (the delivery outcome of the e-mail, the origin of a
\* token), replaced the number of challenges an issue request deleted before its
\* insert (the deleted_count of its delete_many)
NoResponse == [op |-> "none", status |-> 0, detail |-> "", note |-> "", replaced |-> 0]

Answer(op, status, detail) ==
    [op |-> op, status |-> status, detail |-> detail, note |-> "", replaced |-> 0]

\* The requests the server is handling at once.  A handler is a coroutine: it
\* runs alone from one await to the next, and other requests run in between.
Procs == {"p1", "p2"}

NoOtp ==
    [id |-> [ts |-> Never, ctr |-> 0], email |-> "", otpHash |-> "", purpose |-> "",
     expiresAt |-> Never, attempts |-> 0, createdAt |-> Never]

\* pc is the await the handler stands at, op the route, caller the account the
\* token resolved to, otp the code sent in, otp_data / otp_record the handler's
\* locals, status the answer once the handler has returned
Idle ==
    [pc |-> "idle", op |-> "none", caller |-> "", otp |-> "", otp_data |-> NoOtp,
     otp_record |-> NoOtp, status |-> 0, detail |-> ""]

NoRequests == [p \in Procs |-> Idle]

HeldTokens == {x.token : x \in tokens}

TokenInputs == HeldTokens

\* the callers whose change-password requests are explored; the other super
\* admin only requests codes
PasswordChangers == {"u1", "u3"}

ChangeInputs == {t \in TokenInputs : t.payload.user_id \in PasswordChangers}

\* variant: the new challenge starts with one attempt already counted
otp_document_counted(email, otp_hash, t) ==
    [id |-> NoOtp.id, email |-> email, otpHash |-> otp_hash, purpose |-> PASSWORD_CHANGE,
     expiresAt |-> t + OtpLifetimeMinutes, attempts |-> 1, createdAt |-> t]

\* otp_data, before insert_one gives it an _id
otp_document(email, otp_hash, t) ==
    [id |-> NoOtp.id, email |-> email, otpHash |-> otp_hash, purpose |-> PASSWORD_CHANGE,
     expiresAt |-> t + OtpLifetimeMinutes, attempts |-> 0, createdAt |-> t]

\* POST /request-password-change-otp
RequestPasswordChangeOtp(token, n, smtp) ==
    LET op == "request-password-change-otp"
        auth == get_current_super_admin(token, now, database, users, supervisors, guards)
        super_admin_email == auth.user.email
        recent_otp == find_recent(otp_tokens, super_admin_email, PASSWORD_CHANGE, now)
        otp == generate_otp(n)
        after_delete == delete_many(otp_tokens, super_admin_email, PASSWORD_CHANGE)
        otp_data == [otp_document(super_admin_email, hash_otp(otp), now)
                        EXCEPT !.id = NewObjectId(after_delete, now)]
        after_insert == after_delete \cup {otp_data}
        deleted_count == Cardinality(otp_tokens \ after_delete)
    IN
    /\ UNCHANGED <<now, database, users, supervisors, guards, tokens, hasher_vars, flight_vars>>
    /\ IF ~auth.ok
       THEN /\ response' = Answer(op, auth.status, auth.detail)
            /\ UNCHANGED <<otp_tokens, issue_log>>
       ELSE IF database # "connected"
       THEN /\ response' = Answer(op, 503, "Database not available")
            /\ UNCHANGED <<otp_tokens, issue_log>>
       ELSE IF super_admin_email = Absent
       THEN /\ response' = Answer(op, 400, "Super admin email not found")
            /\ UNCHANGED <<otp_tokens, issue_log>>
       ELSE IF recent_otp # {}
       THEN /\ response' = Answer(op, 429, "Please wait 1 minute")
            /\ UNCHANGED <<otp_tokens, issue_log>>
       ELSE IF ~send_otp_email(smtp)
       THEN /\ otp_tokens' \in delete_one(after_insert, super_admin_email, PASSWORD_CHANGE)
            /\ response' = [Answer(op, 500, "Failed to send OTP email")
                                EXCEPT !.note = smtp, !.replaced = deleted_count]
            /\ UNCHANGED issue_log
       ELSE /\ otp_tokens' = after_insert
            /\ response' = [Answer(op, 200, "OTP sent")
                                EXCEPT !.note = smtp, !.replaced = deleted_count]
            /\ issue_log' = [issue_log EXCEPT ![super_admin_email] = now]

\* PUT /change-password
ChangeSuperAdminPassword(token, otp, newPassword, salt) ==
    LET op == "change-password"
        auth == get_current_super_admin(token, now, database, users, supervisors, guards)
        super_admin_email == auth.user.email
        found == Matching(otp_tokens, super_admin_email, PASSWORD_CHANGE)
    IN
    /\ UNCHANGED <<now, database, supervisors, guards, tokens, issue_log, hasher_vars, flight_vars>>
    /\ IF ~auth.ok
       THEN /\ response' = Answer(op, auth.status, auth.detail)
            /\ UNCHANGED <<otp_tokens, users>>
       ELSE IF database # "connected"
       THEN /\ response' = Answer(op, 503, "Database not available")
            /\ UNCHANGED <<otp_tokens, users>>
       ELSE IF super_admin_email = Absent
       THEN /\ response' = Answer(op, 400, "Super admin email not found")
            /\ UNCHANGED <<otp_tokens, users>>
       ELSE IF found = {}
       THEN /\ response' = Answer(op, 400, "No OTP found")
            /\ UNCHANGED <<otp_tokens, users>>
       ELSE \E otp_record \in found :
            IF otp_expired(otp_record, now)
            THEN /\ otp_tokens' = delete_by_id(otp_tokens, otp_record.id)
                 /\ response' = Answer(op, 400, "OTP has expired")
                 /\ UNCHANGED users
            ELSE IF attempts_exceeded(otp_record)
            THEN /\ otp_tokens' = delete_by_id(otp_tokens, otp_record.id)
                 /\ response' = Answer(op, 429, "Maximum OTP attempts exceeded")
                 /\ UNCHANGED users
            ELSE IF ~verify_otp(otp, otp_record.otpHash)
            THEN /\ otp_tokens' = inc_attempts(otp_tokens, otp_record.id)
                 /\ response' = Answer(op, 400, "Invalid OTP")
                 /\ UNCHANGED users
            ELSE LET new_password_hash == hash_password(newPassword, salt, pwd_env) IN
                 /\ otp_tokens' = delete_by_id(otp_tokens, otp_record.id)
                 /\ IF new_password_hash.raised
                    THEN /\ response' = Answer(op, 500, "Failed to change password")
                         /\ UNCHANGED users
                    ELSE /\ users' = [users EXCEPT ![auth.id].passwordHash =
                                                      new_password_hash.value]
                         /\ response' = Answer(op, 200, "Password changed successfully")

\* variant: the background pass runs and removes nothing
TTLReaper_removes_nothing ==
    /\ \E d \in otp_tokens : d.expiresAt < now
    /\ UNCHANGED vars

\* the TTL index on otp_tokens.expiresAt (expireAfterSeconds=0): the store's
\* background pass removes the documents whose expiry time has passed
TTLReaper ==
    /\ \E d \in otp_tokens : d.expiresAt < now
    /\ otp_tokens' = {d \in otp_tokens : ~(d.expiresAt < now)}
    /\ UNCHANGED <<now, database, users, supervisors, guards, tokens, response, issue_log,
                   hasher_vars, flight_vars>>

\* The instants the clock visits: every minute up to MaxFineTime, then every
\* minute from the lifetime of a challenge issued at 0 up to MaxTime.
Instants ==
    {t \in 0..MaxTime : t <= MaxFineTime \/ t >= OtpLifetimeMinutes}

\* time passes, up to the next instant
Tick ==
    /\ \E t \in Instants : t > now
    /\ now' = CHOOSE t \in Instants : t > now /\ \A u \in Instants : u > now => t <= u
    /\ UNCHANGED <<database, users, supervisors, guards, otp_tokens, tokens, response,
                   issue_log, hasher_vars, flight_vars>>

----------------------------------------------------------------------------
(* The accounts present at start, each already logged in *)

InitialPassword == <<"a", "x">>

InitialHash == hash_password(InitialPassword, "s0", HealthyEnv).value

Account(email, role) ==
    [email |-> email, phone |-> Absent, role |-> role, state |-> Absent,
     passwordHash |-> InitialHash, isActive |-> TRUE, lastLogin |-> Never,
     supervisorId |-> Absent]

\* the users collection as seeded: two SUPER_ADMIN documents and one ADMIN (the
\* role is a field of the document; the routes key every OTP by the caller's
\* own e-mail, so several super admins are served side by side)
InitUsers ==
    [id \in {"u1", "u2", "u3"} |->
        CASE id = "u1" -> Account("sa1@lh.io.in", "SUPER_ADMIN")
          [] id = "u2" -> Account("sa2@lh.io.in", "SUPER_ADMIN")
          [] id = "u3" -> Account("admin@lh.io.in", "ADMIN")]

InitSupervisors == [id \in {"s1"} |-> Account("sup@lh.io.in", Absent)]

InitGuards == [id \in {"g1"} |-> Account("guard@lh.io.in", Absent)]

Init ==
    /\ now = 0
    /\ database \in {"connected", "none"}
    /\ users = InitUsers
    /\ supervisors = InitSupervisors
    /\ guards = InitGuards
    /\ otp_tokens = {}
    /\ tokens = {Minted("create_access_token",
                        create_access_token(
                            login_token_data(id, InitUsers[id], InitUsers[id].role), 0))
                 : id \in DOMAIN InitUsers}
    /\ response = NoResponse
    /\ issue_log = [e \in {InitUsers[id].email : id \in DOMAIN InitUsers} |-> Never]
    /\ pwd_env = HealthyEnv
    /\ hash_run = NoRun
    /\ settings = DefaultSettings
    /\ requests = NoRequests

Next ==
    \/ \E token \in TokenInputs, n \in OtpValues, smtp \in SmtpOutcomes :
          RequestPasswordChangeOtp(token, n, smtp)
    \/ \E token \in ChangeInputs, otp \in OtpStrings, newPassword \in Passwords, salt \in Salts :
          ChangeSuperAdminPassword(token, otp, newPassword, salt)
    \/ TTLReaper
    \/ Tick

Spec == Init /\ [][Next]_vars

----------------------------------------------------------------------------
(* Properties of the OTP-gated password change *)

REQUEST_OTP == "request-password-change-otp"
CHANGE_PASSWORD == "change-password"

Caller(token) == get_current_super_admin(token, now, database, users, supervisors, guards)

ChallengesOf(coll, email) == Matching(coll, email, PASSWORD_CHANGE)

Contacts == DOMAIN issue_log

\* every challenge of another contact is exactly as it was
OthersUntouched(email) ==
    \A e \in Contacts \ {email} : ChallengesOf(otp_tokens', e) = ChallengesOf(otp_tokens, e)

\* C1: after any sequence of OTP requests and change-password requests, run one
\* after the other, the store holds at most one challenge per (contact, purpose).
C1_AtMostOneChallenge ==
    \A d1, d2 \in otp_tokens :
        (d1.email = d2.email /\ d1.purpose = d2.purpose) => d1 = d2

\* a challenge was issued once the rate-limit window of an earlier one had
\* passed, while another contact holds a challenge as well
C1_Witness ==
    /\ response.op = REQUEST_OTP /\ response.status = 200
    /\ Cardinality(otp_tokens) = 2
    /\ \E d \in otp_tokens : d.createdAt = now /\ now >= OtpLifetimeMinutes

\* C2 as stated: the verify that follows three wrong verifications of an
\* unexpired challenge finds no challenge.
C2_FourthVerifyFindsNothing ==
    [][\A token \in ChangeInputs, otp \in OtpStrings, pw \in Passwords, salt \in Salts :
          ChangeSuperAdminPassword(token, otp, pw, salt) =>
            LET auth == Caller(token)
                mine == ChallengesOf(otp_tokens, auth.user.email)
            IN (auth.ok /\ \E d \in mine : d.attempts = OtpAttemptCap /\ now <= d.expiresAt)
                 => response'.detail = "No OTP found"]_vars

\* C2 amended: on an unexpired challenge a wrong code is answered Invalid while
\* attempts < 3 (the first, second and third wrong verification) and the
\* attempts counter goes up by one, the challenge staying stored; once attempts
\* is 3 the next verify, whatever its code, is answered AttemptsExceeded (429)
\* and deletes the challenge; a verify that finds no challenge is answered
\* "No OTP found"; attempts never exceeds 3.
C2_AttemptCap ==
    [][/\ \A d \in otp_tokens' : d.attempts <= OtpAttemptCap
       /\ \A token \in ChangeInputs, otp \in OtpStrings, pw \in Passwords, salt \in Salts :
            ChangeSuperAdminPassword(token, otp, pw, salt) =>
              LET auth == Caller(token)
                  email == auth.user.email
                  mine == ChallengesOf(otp_tokens, email)
              IN auth.ok =>
                 /\ mine = {} => response' = Answer(CHANGE_PASSWORD, 400, "No OTP found")
                 /\ \A d \in mine : now <= d.expiresAt =>
                      /\ (d.attempts < OtpAttemptCap /\ otp # d.otpHash.preimage) =>
                            /\ response' = Answer(CHANGE_PASSWORD, 400, "Invalid OTP")
                            /\ ChallengesOf(otp_tokens', email) =
                                  {[d EXCEPT !.attempts = d.attempts + 1]}
                      /\ d.attempts >= OtpAttemptCap =>
                            /\ response' = Answer(CHANGE_PASSWORD, 429,
                                                  "Maximum OTP attempts exceeded")
                            /\ ChallengesOf(otp_tokens', email) = {}]_vars

\* the fourth verify has been answered AttemptsExceeded
C2_Witness ==
    /\ response = Answer(CHANGE_PASSWORD, 429, "Maximum OTP attempts exceeded")
    /\ \E e \in Contacts : issue_log[e] # Never /\ ChallengesOf(otp_tokens, e) = {}

\* C3: a verify answered Ok presented the code of a stored challenge and leaves
\* no challenge for the contact; a challenge for a contact appears only through
\* a successful issue; and a verify that finds no challenge is answered
\* "No OTP found" without touching any password.  Hence after an Ok no verify
\* is answered Ok until a new challenge is issued.
C3_SingleUse ==
    [][/\ \A e \in Contacts :
            (ChallengesOf(otp_tokens, e) = {} /\ ChallengesOf(otp_tokens', e) # {})
               => (response'.op = REQUEST_OTP /\ response'.status = 200)
       /\ \A token \in ChangeInputs, otp \in OtpStrings, pw \in Passwords, salt \in Salts :
            ChangeSuperAdminPassword(token, otp, pw, salt) =>
              LET auth == Caller(token)
                  email == auth.user.email
                  mine == ChallengesOf(otp_tokens, email)
              IN /\ response'.status = 200 =>
                      /\ auth.ok
                      /\ \E d \in mine : d.otpHash.preimage = otp
                      /\ ChallengesOf(otp_tokens', email) = {}
                 /\ (auth.ok /\ mine = {}) =>
                      /\ response' = Answer(CHANGE_PASSWORD, 400, "No OTP found")
                      /\ response'.status # 200
                      /\ users' = users]_vars

\* a password was changed through an Ok, and the verify after it found nothing
C3_Witness ==
    /\ response = Answer(CHANGE_PASSWORD, 400, "No OTP found")
    /\ \E id \in DOMAIN users :
          /\ users[id].passwordHash # InitialHash
          /\ ChallengesOf(otp_tokens, users[id].email) = {}
          /\ issue_log[users[id].email] = now

\* C4: a verify made after the expiry time of the stored challenge is answered
\* Expired whether the code is right or wrong and whatever the attempts counter
\* is; it deletes the challenge and changes no password.
C4_ExpiredWins ==
    [][\A token \in ChangeInputs, otp \in OtpStrings, pw \in Passwords, salt \in Salts :
          ChangeSuperAdminPassword(token, otp, pw, salt) =>
            LET auth == Caller(token)
                email == auth.user.email
                mine == ChallengesOf(otp_tokens, email)
            IN (auth.ok /\ mine # {} /\ \A d \in mine : now > d.expiresAt) =>
                 /\ response' = Answer(CHANGE_PASSWORD, 400, "OTP has expired")
                 /\ ChallengesOf(otp_tokens', email) = {}
                 /\ OthersUntouched(email)
                 /\ users' = users]_vars

\* a verify was answered Expired: the caller's challenge, issued more than its
\* lifetime ago, is gone, another expired challenge is still stored and no
\* password has changed
C4_Witness ==
    /\ response = Answer(CHANGE_PASSWORD, 400, "OTP has expired")
    /\ \E e \in Contacts :
          /\ issue_log[e] # Never /\ now > issue_log[e] + OtpLifetimeMinutes
          /\ ChallengesOf(otp_tokens, e) = {}
    /\ \E d \in otp_tokens : now > d.expiresAt
    /\ \A id \in DOMAIN users : users[id].passwordHash = InitialHash

\* C5 as stated: two successful issues for the same contact are never less
\* than the rate-limit window apart.
C5_IssuesAWindowApart ==
    [][\A token \in TokenInputs, n \in OtpValues, smtp \in SmtpOutcomes :
          (RequestPasswordChangeOtp(token, n, smtp) /\ response'.status = 200) =>
            LET email == Caller(token).user.email
            IN issue_log[email] = Never
               \/ now - issue_log[email] >= OtpRateWindowMinutes]_vars

\* C6: a wrong code against a live challenge with attempts below the cap is
\* answered Invalid, raises that challenge's attempts by exactly 1 and changes
\* nothing else: not its hash, expiry or creation time, not another challenge,
\* not a password hash of any collection.
C6_WrongCodeFrame ==
    [][\A token \in ChangeInputs, otp \in OtpStrings, pw \in Passwords, salt \in Salts :
          ChangeSuperAdminPassword(token, otp, pw, salt) =>
            LET auth == Caller(token)
                email == auth.user.email
                mine == ChallengesOf(otp_tokens, email)
            IN \A d \in mine :
                 (auth.ok /\ now <= d.expiresAt /\ d.attempts < OtpAttemptCap
                          /\ hash_otp(otp) # d.otpHash) =>
                    /\ response' = Answer(CHANGE_PASSWORD, 400, "Invalid OTP")
                    /\ otp_tokens' = (otp_tokens \ {d}) \cup
                          {[id |-> d.id, email |-> d.email, otpHash |-> d.otpHash,
                            purpose |-> d.purpose, expiresAt |-> d.expiresAt,
                            attempts |-> d.attempts + 1, createdAt |-> d.createdAt]}
                    /\ users' = users /\ supervisors' = supervisors /\ guards' = guards]_vars

\* a wrong code was answered Invalid while another contact's challenge is stored
C6_Witness ==
    /\ response = Answer(CHANGE_PASSWORD, 400, "Invalid OTP")
    /\ Cardinality(otp_tokens) = 2
    /\ \E d \in otp_tokens : d.attempts = 2
    /\ \E d \in otp_tokens : d.attempts = 0

\* C7: a password hash is replaced only by a change-password request that
\* presented the code of the caller's stored, unexpired challenge with attempts
\* below the cap (verification outcome Ok), and then it is the caller's own
\* hash; a request ending in no challenge, Invalid or Expired answers 400, one
\* ending in AttemptsExceeded answers 429, and those change no password hash.
C7_OnlyOkChangesPassword ==
    [][/\ users' # users =>
            /\ response' = Answer(CHANGE_PASSWORD, 200, "Password changed successfully")
            /\ \E token \in ChangeInputs, otp \in OtpStrings, pw \in Passwords, salt \in Salts :
                  ChangeSuperAdminPassword(token, otp, pw, salt)
       /\ \A token \in ChangeInputs, otp \in OtpStrings, pw \in Passwords, salt \in Salts :
            ChangeSuperAdminPassword(token, otp, pw, salt) =>
               /\ users' # users =>
                     /\ \E d \in ChallengesOf(otp_tokens, Caller(token).user.email) :
                           /\ d.otpHash = hash_otp(otp)
                           /\ now <= d.expiresAt
                           /\ d.attempts < OtpAttemptCap
                     /\ \A id \in DOMAIN users :
                           id # Caller(token).id => users'[id] = users[id]
                     /\ users'[Caller(token).id] =
                           [users[Caller(token).id] EXCEPT
                               !.passwordHash =
                                   bcrypt_hashpw(str_encode(pw), salt)]
               /\ response'.detail \in {"No OTP found", "Invalid OTP", "OTP has expired"}
                     => (response'.status = 400 /\ users' = users)
               /\ response'.detail = "Maximum OTP attempts exceeded"
                     => (response'.status = 429 /\ users' = users)
               /\ response'.status # 200 => users' = users]_vars

\* a super admin's password hash has just been replaced
C7_Witness ==
    /\ response = Answer(CHANGE_PASSWORD, 200, "Password changed successfully")
    /\ \E id \in DOMAIN users :
          users[id].passwordHash = bcrypt_hashpw(str_encode(<<"x", "a">>), "s1")

C30_ReissueReplaces ==
    [][/\ \A token \in TokenInputs, n \in OtpValues, smtp \in SmtpOutcomes :
            (/\ RequestPasswordChangeOtp(token, n, smtp)
             /\ response'.status = 200
             /\ ChallengesOf(otp_tokens, Caller(token).user.email) # {}) =>
               LET email == Caller(token).user.email
                   before == ChallengesOf(otp_tokens, email)
               IN /\ before \cap otp_tokens' = {}
                  /\ \E d \in otp_tokens' :
                        /\ ChallengesOf(otp_tokens', email) = {d}
                        /\ d.attempts = 0
                        /\ verify_otp(generate_otp(n), d.otpHash)
                        /\ d.expiresAt = now + OtpLifetimeMinutes
                        /\ \A b \in before :
                              /\ d.expiresAt > b.expiresAt
                              /\ \A code \in OtpStrings :
                                    (verify_otp(code, b.otpHash)
                                     /\ verify_otp(code, d.otpHash))
                                    => code = generate_otp(n)
       /\ \A token \in ChangeInputs, otp \in OtpStrings, pw \in Passwords, salt \in Salts :
            (ChangeSuperAdminPassword(token, otp, pw, salt) /\ response'.status = 200) =>
               \E d \in ChallengesOf(otp_tokens, Caller(token).user.email) :
                  /\ verify_otp(otp, d.otpHash)
                  /\ d.createdAt = issue_log[Caller(token).user.email]]_vars

\* a code has just been issued over a stored challenge, and the challenge now
\* stored for that contact is the new one
C30_Witness ==
    /\ response.op = REQUEST_OTP /\ response.status = 200
    /\ response.replaced > 0
    /\ \E d \in otp_tokens : d.createdAt = now /\ d.attempts = 0 /\ d.expiresAt > now

----------------------------------------------------------------------------
(* The token functions on their own: tokens are created, time passes, and   *)
(* tokens, genuine or not, are verified and presented to a protected route. *)

TokenHolders == {"u1", "u3"}

\* the minutes around 0 and around the two token lifetimes
TokenInstants ==
    {t \in UNION {(b - TokenSlack)..(b + TokenSlack) :
                    b \in {0, ACCESS_TOKEN_EXPIRE_MINUTES,
                           REFRESH_TOKEN_EXPIRE_DAYS * MinutesPerDay}} : t >= 0}

TokCreateAccess(id) ==
    /\ Cardinality(tokens) < MaxTokens
    /\ tokens' = tokens \cup
          {Minted("create_access_token",
                  create_access_token(login_token_data(id, users[id], users[id].role), now))}
    /\ UNCHANGED <<now, database, users, supervisors, guards, otp_tokens, response, issue_log,
                   hasher_vars, flight_vars>>

TokCreateRefresh(id) ==
    /\ Cardinality(tokens) < MaxTokens
    /\ tokens' = tokens \cup {Minted("create_refresh_token", create_refresh_token(id, now))}
    /\ UNCHANGED <<now, database, users, supervisors, guards, otp_tokens, response, issue_log,
                   hasher_vars, flight_vars>>

Presentable == tokens \cup ForgedTokens(now)

\* jwt_service.verify_token(token, token_type); an exception leaving the
\* function is recorded as detail "raise"
TokVerify(x, token_type) ==
    LET result == verify_token(x.token, token_type, now) IN
    /\ response' = [op |-> IF token_type = "access" THEN "verify_token(access)"
                                                    ELSE "verify_token(refresh)",
                    status |-> 0, detail |-> result.kind, note |-> x.by,
                    replaced |-> 0]
    /\ UNCHANGED <<now, database, users, supervisors, guards, otp_tokens, tokens, issue_log,
                   hasher_vars, flight_vars>>

\* a request to a route that depends on get_current_user
TokProtectedCall(x) ==
    LET current_user == get_current_user(x.token, now, database, users, supervisors, guards)
    IN
    /\ response' = [op |-> "protected-call", status |-> current_user.status,
                    detail |-> current_user.detail, note |-> x.by, replaced |-> 0]
    /\ UNCHANGED <<now, database, users, supervisors, guards, otp_tokens, tokens, issue_log,
                   hasher_vars, flight_vars>>

TokAdvance ==
    /\ \E t \in TokenInstants : t > now
    /\ now' = CHOOSE t \in TokenInstants : t > now /\ \A u \in TokenInstants : u > now => t <= u
    /\ UNCHANGED <<database, users, supervisors, guards, otp_tokens, tokens, response,
                   issue_log, hasher_vars, flight_vars>>

TokenInit ==
    /\ now = 0
    /\ database = "connected"
    /\ users = InitUsers
    /\ supervisors = InitSupervisors
    /\ guards = InitGuards
    /\ otp_tokens = {}
    /\ tokens = {}
    /\ response = NoResponse
    /\ issue_log = [e \in {InitUsers[id].email : id \in DOMAIN InitUsers} |-> Never]
    /\ pwd_env = HealthyEnv
    /\ hash_run = NoRun
    /\ settings = DefaultSettings
    /\ requests = NoRequests

TokenNext ==
    \/ \E id \in TokenHolders : TokCreateAccess(id)
    \/ \E id \in TokenHolders : TokCreateRefresh(id)
    \/ \E x \in Presentable, token_type \in {"access", "refresh"} : TokVerify(x, token_type)
    \/ \E x \in Presentable : TokProtectedCall(x)
    \/ TokAdvance

TokenSpec == TokenInit /\ [][TokenNext]_vars

\* C9: verify_token(token, "access") is None for every token made by
\* create_refresh_token, verify_token(token, "refresh") is None for every token
\* made by create_access_token, and a protected call that presents a refresh
\* token is answered 401.
C9_TypeIsolation ==
    /\ (response.op = "verify_token(access)" /\ response.note = "create_refresh_token")
          => response.detail = "None"
    /\ (response.op = "verify_token(refresh)" /\ response.note = "create_access_token")
          => response.detail = "None"
    /\ (response.op = "protected-call" /\ response.note = "create_refresh_token")
          => response.status = 401

\* an unexpired refresh token was verified as an access token and refused
C9_Witness ==
    /\ response.op = "verify_token(access)"
    /\ response.note = "create_refresh_token"
    /\ response.detail = "None"
    /\ \A x \in tokens : x.token.payload.exp > now

\* C10 as stated: verify_token never raises; for a token with an invalid
\* signature, a malformed token, an expired token or a token of the other type
\* it returns None, and a protected call with such a token is answered 401.
C10_NeverRaises ==
    /\ response.op \in {"verify_token(access)", "verify_token(refresh)"}
          => response.detail # "raise"
    /\ (response.op = "protected-call"
           /\ response.note \in {"foreign-key", "edited-payload", "malformed",
                                 "create_refresh_token"})
          => response.status = 401

----------------------------------------------------------------------------
(* The password hasher on its own: a password and the backends are chosen,  *)
(* the password is hashed, and candidates are verified against its hash or  *)
(* against a stored value that is not a hash.                               *)

Pad(k) == [i \in 1..k |-> "a"]

PadLengths == {0} \cup ((BcryptMaxBytes - PadSlack)..BcryptMaxBytes)

Tails == UNION {[1..k -> Characters] : k \in 0..MaxTail}

HasherPasswords == {Pad(k) \o t : k \in PadLengths, t \in Tails}

\* the password cut to 72 bytes, as a caller would type it
Truncated(password) == bytes_decode_ignore(first_72_bytes(str_encode(password)))

Candidates(password) == {password, password \o <<"x">>, Truncated(password)}

HashStep(salt) ==
    /\ hash_run.op = "chosen"
    /\ hash_run' = [hash_run EXCEPT
                       !.op = "hash_password",
                       !.hashed = hash_password(hash_run.password, salt, pwd_env)]
    /\ UNCHANGED <<now, database, users, supervisors, guards, otp_tokens, tokens, response,
                   issue_log, pwd_env, flight_vars>>

VerifyStep(candidate, against) ==
    /\ hash_run.op \in {"hash_password", "verify_password"}
    /\ against # NoHash
    /\ against.scheme = "bcrypt" => against = hash_run.hashed.value
    /\ hash_run' = [hash_run EXCEPT
                       !.op = "verify_password",
                       !.candidate = candidate,
                       !.against = against,
                       !.verdict = verify_password(candidate, against, pwd_env)]
    /\ UNCHANGED <<now, database, users, supervisors, guards, otp_tokens, tokens, response,
                   issue_log, pwd_env, flight_vars>>

HasherInit ==
    /\ now = 0
    /\ database = "connected"
    /\ users = InitUsers
    /\ supervisors = InitSupervisors
    /\ guards = InitGuards
    /\ otp_tokens = {}
    /\ tokens = {}
    /\ response = NoResponse
    /\ issue_log = [e \in {InitUsers[id].email : id \in DOMAIN InitUsers} |-> Never]
    /\ pwd_env \in PwdEnvs
    /\ \E password \in HasherPasswords :
          hash_run = [NoRun EXCEPT !.op = "chosen", !.password = password]
    /\ settings = DefaultSettings
    /\ requests = NoRequests

HasherNext ==
    \/ \E salt \in Salts : HashStep(salt)
    \/ \E candidate \in Candidates(hash_run.password),
          against \in {hash_run.hashed.value, MalformedHash} :
          VerifyStep(candidate, against)

HasherSpec == HasherInit /\ [][HasherNext]_vars

Utf8Len(password) == Len(str_encode(password))

\* the last step verified a candidate against the hash of the password
VerifiedAgainstOwnHash ==
    /\ hash_run.op = "verify_password"
    /\ ~hash_run.hashed.raised
    /\ hash_run.against = hash_run.hashed.value

\* C16 as stated: for every password longer than 72 bytes in UTF-8, the hash
\* of the password verifies the password itself, and it verifies the password
\* cut to 72 bytes, on every backend path.
C16_LongPasswordVerifies ==
    (VerifiedAgainstOwnHash /\ Utf8Len(hash_run.password) > BcryptMaxBytes) =>
        /\ hash_run.candidate = hash_run.password => hash_run.verdict.value
        /\ (/\ hash_run.candidate = Truncated(hash_run.password)
            /\ Utf8Len(hash_run.candidate) = BcryptMaxBytes)
              => hash_run.verdict.value

\* C17 as stated: for every password p and h = hash_password(p),
\* verify_password(p, h) is true and verify_password(p + "x", h) is false.
C17_AppendedCharacterRejected ==
    VerifiedAgainstOwnHash =>
        /\ hash_run.candidate = hash_run.password => hash_run.verdict.value
        /\ hash_run.candidate = hash_run.password \o <<"x">> => ~hash_run.verdict.value

\* C17 amended: for every password p whose UTF-8 encoding is shorter than 72
\* bytes and h = hash_password(p), verify_password(p, h) is true and
\* verify_password(p + "x", h) is false.
C17_ShortPasswordExact ==
    (VerifiedAgainstOwnHash /\ Utf8Len(hash_run.password) < BcryptMaxBytes) =>
        /\ hash_run.candidate = hash_run.password => hash_run.verdict.value
        /\ hash_run.candidate = hash_run.password \o <<"x">> => ~hash_run.verdict.value

\* a password of 71 bytes was hashed by the raw bcrypt backend, and the
\* password with "x" appended, 72 bytes long, was refused
C17_Witness ==
    /\ VerifiedAgainstOwnHash
    /\ Utf8Len(hash_run.password) = BcryptMaxBytes - 1
    /\ hash_run.candidate = hash_run.password \o <<"x">>
    /\ hash_run.hashed.tried = <<"passlib", "bcrypt">>
    /\ ~hash_run.verdict.value

\* C18: verify_password never raises: it asks one backend, and when that one
\* throws it asks the fallback exactly once, answering false when the fallback
\* fails too; hash_password asks the fallback once when the first backend
\* throws and raises only when both backends fail.
C18_FallbackOnce ==
    LET primary_throws ==
            \/ pwd_env.passlib = "raises"
            \/ hash_run.against.scheme # "bcrypt"
            \/ (Utf8Len(hash_run.candidate) > BcryptMaxBytes
                   /\ pwd_env.long_input = "raises")
        fallback_fails ==
            pwd_env.bcrypt = "raises" \/ hash_run.against.scheme # "bcrypt"
    IN
    /\ hash_run.op = "verify_password" =>
          /\ ~hash_run.verdict.raised
          /\ hash_run.verdict.tried =
                IF pwd_env.use_raw_bcrypt THEN <<"bcrypt">>
                ELSE IF primary_throws THEN <<"passlib", "bcrypt">>
                ELSE <<"passlib">>
          /\ (~pwd_env.use_raw_bcrypt /\ primary_throws /\ fallback_fails)
                => ~hash_run.verdict.value
    /\ hash_run.op \in {"hash_password", "verify_password"} =>
          /\ hash_run.hashed.tried =
                IF pwd_env.use_raw_bcrypt THEN <<"bcrypt">>
                ELSE IF pwd_env.passlib = "raises" THEN <<"passlib", "bcrypt">>
                ELSE <<"passlib">>
          /\ hash_run.hashed.raised <=>
                IF pwd_env.use_raw_bcrypt THEN pwd_env.bcrypt = "raises"
                ELSE pwd_env.passlib = "raises" /\ pwd_env.bcrypt = "raises"

\* passlib threw on a stored value that is not a hash, the fallback was asked
\* once and threw as well, and the answer was false
C18_Witness ==
    /\ hash_run.op = "verify_password"
    /\ hash_run.against = MalformedHash
    /\ pwd_env.passlib = "ok"
    /\ hash_run.verdict = Verdict(FALSE, <<"passlib", "bcrypt">>)

----------------------------------------------------------------------------
(* Login: POST /auth/login *)

\* find_one({"$or": [{"email": username}, {"phone": username}]}): the ids of
\* the documents that match; the store hands back one of them
find_by_contact(coll, username) ==
    {id \in DOMAIN coll : coll[id].email = username \/ coll[id].phone = username}

NoMatch == [partition |-> "none", ids |-> {}]

\* variant: the partitions are searched in the opposite order
find_login_user_guards_first(username, us, ss, gs) ==
    IF find_by_contact(gs, username) # {}
    THEN [partition |-> "guards", ids |-> find_by_contact(gs, username)]
    ELSE IF find_by_contact(ss, username) # {}
    THEN [partition |-> "supervisors", ids |-> find_by_contact(ss, username)]
    ELSE IF find_by_contact(us, username) # {}
    THEN [partition |-> "users", ids |-> find_by_contact(us, username)]
    ELSE NoMatch

\* the nested searches of login: users, then supervisors, then guards
find_login_user(username, us, ss, gs) ==
    IF find_by_contact(us, username) # {}
    THEN [partition |-> "users", ids |-> find_by_contact(us, username)]
    ELSE IF find_by_contact(ss, username) # {}
    THEN [partition |-> "supervisors", ids |-> find_by_contact(ss, username)]
    ELSE IF find_by_contact(gs, username) # {}
    THEN [partition |-> "guards", ids |-> find_by_contact(gs, username)]
    ELSE NoMatch

partition_of(name, us, ss, gs) ==
    CASE name = "users" -> us
      [] name = "supervisors" -> ss
      [] name = "guards" -> gs

\* user.get("role", "ADMIN") in the users collection, a literal in the others
login_role(partition, user) ==
    CASE partition = "users" -> IF user.role = Absent THEN "ADMIN" ELSE user.role
      [] partition = "supervisors" -> "SUPERVISOR"
      [] partition = "guards" -> "GUARD"

\* the dict of the last-login update maps three roles to their collections;
\* indexing it with another role raises KeyError
last_login_collection(role) ==
    CASE role = "ADMIN" -> "users"
      [] role = "SUPERVISOR" -> "supervisors"
      [] role = "GUARD" -> "guards"
      [] OTHER -> "KeyError"

\* update_one({"_id": id}, {"$set": {"lastLogin": t}}) on the collection `name`,
\* applied to the collection `coll` called `own`
set_last_login(coll, own, name, id, t) ==
    IF name = own /\ id \in DOMAIN coll THEN [coll EXCEPT ![id].lastLogin = t] ELSE coll

\* variant: the flag is not looked at
account_active_unchecked(user) == TRUE

\* user.get("isActive", False)
account_active(user) == user.isActive

LOGIN == "login"

InvalidCredentials == "Invalid email/phone or password"

Login(username, password) ==
    LET found == find_login_user(username, users, supervisors, guards) IN
    /\ Cardinality(tokens) < MaxLogins
    /\ UNCHANGED <<now, database, otp_tokens, issue_log, hasher_vars, flight_vars>>
    /\ IF database # "connected"
       THEN /\ response' = Answer(LOGIN, 503, "Database collections not available")
            /\ UNCHANGED <<users, supervisors, guards, tokens>>
       ELSE IF found.ids = {}
       THEN \* the 401 raised inside the try block is caught by its own
            \* `except Exception` and raised again as a 500
            /\ response' = Answer(LOGIN, 500,
                                  "Database query failed: 401: Invalid email/phone or password")
            /\ UNCHANGED <<users, supervisors, guards, tokens>>
       ELSE \E id \in found.ids :
            LET user == partition_of(found.partition, users, supervisors, guards)[id]
                role == login_role(found.partition, user)
                collection == last_login_collection(role)
            IN
            IF user.passwordHash = NoHash
            THEN /\ response' = Answer(LOGIN, 500, "User data corrupted - missing password")
                 /\ UNCHANGED <<users, supervisors, guards, tokens>>
            ELSE IF ~verify_password(password, user.passwordHash, pwd_env).value
            THEN /\ response' = Answer(LOGIN, 401, InvalidCredentials)
                 /\ UNCHANGED <<users, supervisors, guards, tokens>>
            ELSE IF ~account_active(user)
            THEN /\ response' = Answer(LOGIN, 401, "Account not activated")
                 /\ UNCHANGED <<users, supervisors, guards, tokens>>
            ELSE /\ users' = set_last_login(users, "users", collection, id, now)
                 /\ supervisors' = set_last_login(supervisors, "supervisors", collection,
                                                  id, now)
                 /\ guards' = set_last_login(guards, "guards", collection, id, now)
                 /\ tokens' = tokens \cup
                       {Minted("create_access_token",
                               create_access_token(login_token_data(id, user, role), now))}
                 /\ response' = [Answer(LOGIN, 200, "bearer") EXCEPT !.note = id]

\* an account is switched off or on again in the store
SetActive(partition, id, flag) ==
    /\ id \in DOMAIN partition_of(partition, users, supervisors, guards)
    /\ partition_of(partition, users, supervisors, guards)[id].isActive # flag
    /\ users' = IF partition = "users" THEN [users EXCEPT ![id].isActive = flag] ELSE users
    /\ supervisors' = IF partition = "supervisors"
                      THEN [supervisors EXCEPT ![id].isActive = flag] ELSE supervisors
    /\ guards' = IF partition = "guards" THEN [guards EXCEPT ![id].isActive = flag] ELSE guards
    /\ UNCHANGED <<now, database, otp_tokens, tokens, response, issue_log, hasher_vars, flight_vars>>

LoginAdvance ==
    /\ now < MaxLoginTime
    /\ now' = now + 1
    /\ UNCHANGED <<database, users, supervisors, guards, otp_tokens, tokens, response,
                   issue_log, hasher_vars, flight_vars>>

SupervisorPassword == <<"x", "a">>
GuardPassword == <<"x", "x">>

AccountWith(email, phone, role, password) ==
    [Account(email, role) EXCEPT
        !.phone = phone,
        !.passwordHash = hash_password(password, "s0", HealthyEnv).value]

SharedPhone == "9000000001"

\* the accounts of the login specification; the admin's phone is also the
\* supervisor's and a guard's, and the supervisor's e-mail is also that guard's
LoginUsers ==
    [id \in {"u1", "u3"} |->
        CASE id = "u1" -> AccountWith("sa1@lh.io.in", Absent, "SUPER_ADMIN", InitialPassword)
          [] id = "u3" -> AccountWith("admin@lh.io.in", SharedPhone, "ADMIN", InitialPassword)]

LoginSupervisors ==
    [id \in {"s1"} |-> AccountWith("sup@lh.io.in", SharedPhone, Absent, SupervisorPassword)]

LoginGuards ==
    [id \in {"g1", "g2"} |->
        CASE id = "g1" -> AccountWith("sup@lh.io.in", SharedPhone, Absent, GuardPassword)
          [] id = "g2" -> AccountWith("guard@lh.io.in", "", Absent, GuardPassword)]

LoginNames == {"sa1@lh.io.in", "admin@lh.io.in", "sup@lh.io.in", "guard@lh.io.in",
               SharedPhone, "nobody@lh.io.in"}

LoginPasswords == {InitialPassword, SupervisorPassword, GuardPassword}

\* the accounts switched off and on in the login specification
Switchable == {<<"users", "u1">>, <<"users", "u3">>, <<"supervisors", "s1">>,
               <<"guards", "g1">>, <<"guards", "g2">>}

LoginInit ==
    /\ now = 0
    /\ database \in {"connected", "none"}
    /\ users = LoginUsers
    /\ supervisors = LoginSupervisors
    /\ guards = LoginGuards
    /\ otp_tokens = {}
    /\ tokens = {}
    /\ response = NoResponse
    /\ issue_log = [e \in {InitUsers[id].email : id \in DOMAIN InitUsers} |-> Never]
    /\ pwd_env = HealthyEnv
    /\ hash_run = NoRun
    /\ settings = DefaultSettings
    /\ requests = NoRequests

LoginNext ==
    \/ \E username \in LoginNames, password \in LoginPasswords : Login(username, password)
    \/ \E a \in Switchable, flag \in BOOLEAN : SetActive(a[1], a[2], flag)
    \/ LoginAdvance

LoginSpec == LoginInit /\ [][LoginNext]_vars

\* the documents of a collection that carry the contact
Holding(coll, username) ==
    {id \in DOMAIN coll : username \in {coll[id].email, coll[id].phone}}

\* the access token a login at this instant hands to the identity
TokenFor(id, user, role) ==
    Minted("create_access_token",
           jwt_encode([user_id |-> id, email |-> user.email, phone |-> user.phone,
                       role |-> role, type |-> "access",
                       exp |-> now + ACCESS_TOKEN_EXPIRE_MINUTES],
                      SECRET_KEY))

\* the identity the identifier resolves to: the holders in the first
\* collection that has any
Resolved(username) ==
    IF Holding(users, username) # {}
    THEN [partition |-> "users", ids |-> Holding(users, username)]
    ELSE IF Holding(supervisors, username) # {}
    THEN [partition |-> "supervisors", ids |-> Holding(supervisors, username)]
    ELSE [partition |-> "guards", ids |-> Holding(guards, username)]

RoleOf(partition, user) ==
    CASE partition = "users" -> user.role
      [] partition = "supervisors" -> "SUPERVISOR"
      [] partition = "guards" -> "GUARD"

\* C11: a login that succeeds returns the identity found in the first of the
\* users, supervisors and guards collections that holds the identifier as
\* e-mail or phone, with that collection's role, also when a later collection
\* holds the same contact.
C11_ResolutionOrder ==
    [][\A username \in LoginNames, password \in LoginPasswords :
          (Login(username, password) /\ response'.status = 200) =>
            LET id == response'.note
                inUsers == Holding(users, username)
                inSupervisors == Holding(supervisors, username)
                inGuards == Holding(guards, username)
            IN /\ inUsers # {} =>
                    (id \in inUsers /\ TokenFor(id, users[id], users[id].role) \in tokens')
               /\ (inUsers = {} /\ inSupervisors # {}) =>
                    (id \in inSupervisors
                       /\ TokenFor(id, supervisors[id], "SUPERVISOR") \in tokens')
               /\ (inUsers = {} /\ inSupervisors = {}) =>
                    (id \in inGuards /\ TokenFor(id, guards[id], "GUARD") \in tokens')]_vars

\* the supervisor has logged in, and a guard carries the supervisor's e-mail
C11_Witness ==
    /\ response = [Answer(LOGIN, 200, "bearer") EXCEPT !.note = "s1"]
    /\ supervisors["s1"].lastLogin = now
    /\ \E g \in DOMAIN guards : guards[g].email = supervisors["s1"].email

\* C12 as stated: with the store reachable, a login with an identifier that no
\* collection holds and a login with a known identifier and a wrong password
\* are both answered 401 with the same text.
C12_UnknownLikeWrongPassword ==
    [][\A username \in LoginNames, password \in LoginPasswords :
          (Login(username, password) /\ database = "connected") =>
            LET holders == Holding(users, username) \cup Holding(supervisors, username)
                              \cup Holding(guards, username)
                found == Resolved(username)
                coll == partition_of(found.partition, users, supervisors, guards)
            IN /\ holders = {} => response' = Answer(LOGIN, 401, InvalidCredentials)
               /\ (holders # {}
                     /\ \A id \in found.ids :
                           coll[id].passwordHash.digest # str_encode(password))
                    => response' = Answer(LOGIN, 401, InvalidCredentials)]_vars

\* C13: a token is handed out only by a login answered 200; that login resolved
\* the identifier to an identity whose stored hash is the hash of the password
\* given and which is active, and the token carries the identity's id and its
\* role (the stored role in the users collection, SUPERVISOR or GUARD in the
\* other two); with the store reachable, a login with the right password for
\* an inactive identity is answered 401; no other answer comes with a token.
C13_TokenOnlyForVerifiedActive ==
    [][/\ tokens' # tokens => (response'.op = LOGIN /\ response'.status = 200)
       /\ \A username \in LoginNames, password \in LoginPasswords :
            Login(username, password) =>
              LET r == Resolved(username)
                  coll == partition_of(r.partition, users, supervisors, guards)
              IN /\ response'.status = 200 =>
                      \E id \in r.ids :
                          /\ coll[id].passwordHash =
                                bcrypt_hashpw(str_encode(password), coll[id].passwordHash.salt)
                          /\ coll[id].isActive
                          /\ tokens' = tokens \cup
                                {TokenFor(id, coll[id], RoleOf(r.partition, coll[id]))}
                 /\ response'.status # 200 => tokens' = tokens
                 /\ \A id \in r.ids :
                       (/\ database = "connected"
                        /\ coll[id].passwordHash =
                              bcrypt_hashpw(str_encode(password), coll[id].passwordHash.salt)
                        /\ ~coll[id].isActive)
                          => (response'.status = 401 /\ tokens' = tokens)]_vars

\* an inactive identity gave its password and was answered 401, after another
\* identity had been given a token
C13_Witness ==
    /\ response = Answer(LOGIN, 401, "Account not activated")
    /\ tokens # {}
    /\ \A x \in tokens :
          LET role == x.token.payload.role
              id == x.token.payload.user_id
          IN collection_of(role, users, supervisors, guards)[id].isActive

\* C20 as stated: a login answered 200 stores the login time in the lastLogin
\* field of the identity that logged in, in its own collection, and leaves
\* every other identity as it was.
C20_LastLoginRecorded ==
    [][\A username \in LoginNames, password \in LoginPasswords :
          (Login(username, password) /\ response'.status = 200) =>
            LET id == response'.note
                Recorded(coll, after) ==
                    \A i \in DOMAIN coll :
                        after[i] = IF i = id THEN [coll[i] EXCEPT !.lastLogin = now]
                                   ELSE coll[i]
            IN /\ Recorded(users, users')
               /\ Recorded(supervisors, supervisors')
               /\ Recorded(guards, guards')]_vars

----------------------------------------------------------------------------
(* Role gates: the dependencies a protected route declares *)

get_current_admin(token, t, db, us, ss, gs) ==
    LET current_user == get_current_user(token, t, db, us, ss, gs) IN
    IF ~current_user.ok THEN current_user
    ELSE IF current_user.user.role # "ADMIN"
    THEN Denied(403, "Admin access required")
    ELSE current_user

get_current_supervisor(token, t, db, us, ss, gs) ==
    LET current_user == get_current_user(token, t, db, us, ss, gs) IN
    IF ~current_user.ok THEN current_user
    ELSE IF current_user.user.role # "SUPERVISOR"
    THEN Denied(403, "Supervisor access required")
    ELSE current_user

get_current_guard(token, t, db, us, ss, gs) ==
    LET current_user == get_current_user(token, t, db, us, ss, gs) IN
    IF ~current_user.ok THEN current_user
    ELSE IF current_user.user.role # "GUARD"
    THEN Denied(403, "Guard access required")
    ELSE current_user

get_super_admin_or_admin(token, t, db, us, ss, gs) ==
    LET current_user == get_current_user(token, t, db, us, ss, gs) IN
    IF ~current_user.ok THEN current_user
    ELSE IF current_user.user.role \notin {"SUPER_ADMIN", "ADMIN"}
    THEN Denied(403, "Super Admin or Admin access required")
    ELSE current_user

get_admin_or_supervisor(token, t, db, us, ss, gs) ==
    LET current_user == get_current_user(token, t, db, us, ss, gs) IN
    IF ~current_user.ok THEN current_user
    ELSE IF current_user.user.role \notin {"ADMIN", "SUPERVISOR"}
    THEN Denied(403, "Admin or Supervisor access required")
    ELSE current_user

\* variant: a super admin passes every gate
require_roles_with_hierarchy(allowed_roles, token, t, db, us, ss, gs) ==
    LET current_user == get_current_user(token, t, db, us, ss, gs) IN
    IF ~current_user.ok THEN current_user
    ELSE IF current_user.user.role \notin allowed_roles \cup {"SUPER_ADMIN"}
    THEN Denied(403, "Access denied")
    ELSE current_user

\* require_roles(*allowed_roles) and the role_checker it returns
require_roles(allowed_roles, token, t, db, us, ss, gs) ==
    LET current_user == get_current_user(token, t, db, us, ss, gs) IN
    IF ~current_user.ok THEN current_user
    ELSE IF current_user.user.role \notin allowed_roles
    THEN Denied(403, "Access denied")
    ELSE current_user

\* the role sets given to require_roles
RequiredRoleSets == {{"ADMIN"}, {"SUPER_ADMIN", "ADMIN"}, {"SUPERVISOR", "GUARD"}}

\* a gate and the roles it is declared for
Gate(name, allowed) == [name |-> name, allowed |-> allowed]

Gates ==
    { Gate("get_current_super_admin", {"SUPER_ADMIN"}),
      Gate("get_current_admin", {"ADMIN"}),
      Gate("get_current_supervisor", {"SUPERVISOR"}),
      Gate("get_current_guard", {"GUARD"}),
      Gate("get_super_admin_or_admin", {"SUPER_ADMIN", "ADMIN"}),
      Gate("get_admin_or_supervisor", {"ADMIN", "SUPERVISOR"}) }
    \cup {Gate("require_roles", allowed) : allowed \in RequiredRoleSets}

apply_gate(gate, token, t, db, us, ss, gs) ==
    CASE gate.name = "get_current_super_admin" -> get_current_super_admin(token, t, db, us, ss, gs)
      [] gate.name = "get_current_admin" -> get_current_admin(token, t, db, us, ss, gs)
      [] gate.name = "get_current_supervisor" -> get_current_supervisor(token, t, db, us, ss, gs)
      [] gate.name = "get_current_guard" -> get_current_guard(token, t, db, us, ss, gs)
      [] gate.name = "get_super_admin_or_admin" ->
            get_super_admin_or_admin(token, t, db, us, ss, gs)
      [] gate.name = "get_admin_or_supervisor" ->
            get_admin_or_supervisor(token, t, db, us, ss, gs)
      [] gate.name = "require_roles" ->
            require_roles(gate.allowed, token, t, db, us, ss, gs)

\* a request to a route behind the gate; the route body runs when the gate
\* lets the caller through (status 200)
GatedCall(x, gate) ==
    LET current_user == apply_gate(gate, x.token, now, database, users, supervisors, guards)
    IN
    /\ response' = [op |-> gate.name, status |-> current_user.status,
                    detail |-> current_user.detail, note |-> x.token.payload.role,
                    replaced |-> 0]
    /\ UNCHANGED <<now, database, users, supervisors, guards, otp_tokens, tokens, issue_log,
                   hasher_vars, flight_vars>>

\* the minutes around 0 and around the lifetime of an access token
GateInstants == {t \in TokenInstants : t <= ACCESS_TOKEN_EXPIRE_MINUTES + TokenSlack}

GateAdvance ==
    /\ \E t \in GateInstants : t > now
    /\ now' = CHOOSE t \in GateInstants : t > now /\ \A u \in GateInstants : u > now => t <= u
    /\ UNCHANGED <<database, users, supervisors, guards, otp_tokens, tokens, response,
                   issue_log, hasher_vars, flight_vars>>

\* the token each account was given by its login at 0
SessionOf(id, doc, role) ==
    Minted("create_access_token", create_access_token(login_token_data(id, doc, role), 0))

\* the accounts switched off and on in the gate specification
GateSwitchable == {<<"users", "u3">>, <<"guards", "g1">>}

\* a request without a token
Anonymous == Minted("missing", NoToken)

GateInit ==
    /\ now = 0
    /\ database \in {"connected", "none"}
    /\ users = InitUsers
    /\ supervisors = InitSupervisors
    /\ guards = InitGuards
    /\ otp_tokens = {}
    /\ tokens = {SessionOf("u1", InitUsers["u1"], "SUPER_ADMIN"),
                 SessionOf("u3", InitUsers["u3"], "ADMIN"),
                 SessionOf("s1", InitSupervisors["s1"], "SUPERVISOR"),
                 SessionOf("g1", InitGuards["g1"], "GUARD")}
    /\ response = NoResponse
    /\ issue_log = [e \in {InitUsers[id].email : id \in DOMAIN InitUsers} |-> Never]
    /\ pwd_env = HealthyEnv
    /\ hash_run = NoRun
    /\ settings = DefaultSettings
    /\ requests = NoRequests

GateNext ==
    \/ \E x \in tokens \cup {Anonymous}, gate \in Gates : GatedCall(x, gate)
    \/ \E a \in GateSwitchable, flag \in BOOLEAN : SetActive(a[1], a[2], flag)
    \/ GateAdvance

GateSpec == GateInit /\ [][GateNext]_vars

\* the caller presents a token of a stored, active account that has not
\* expired, and the store is reachable
Authenticated(x) ==
    /\ x \in tokens
    /\ x.token.payload.exp > now
    /\ database = "connected"
    /\ LET coll == collection_of(x.token.payload.role, users, supervisors, guards)
           id == x.token.payload.user_id
       IN id \in DOMAIN coll /\ coll[id].isActive

\* C14: a gate lets an authenticated caller with role R through if and only if
\* R is one of the roles the gate is declared for, and answers 403 otherwise;
\* a caller that is not authenticated is never answered 403 nor let through,
\* and without a token, with an expired token or with an inactive account it
\* is answered 401 when the store is reachable.  No role stands for another.
C14_GateIffRoleAllowed ==
    [][\A x \in tokens \cup {Anonymous}, gate \in Gates :
          GatedCall(x, gate) =>
            LET R == x.token.payload.role IN
            /\ Authenticated(x) =>
                  /\ R \in gate.allowed => response'.status = 200
                  /\ R \notin gate.allowed => response'.status = 403
            /\ ~Authenticated(x) =>
                  /\ response'.status \notin {200, 403}
                  /\ database = "connected" => response'.status = 401]_vars

\* a super admin was refused by the gate declared for ADMIN alone
C14_Witness ==
    /\ response.op = "get_current_admin"
    /\ response.status = 403
    /\ response.note = "SUPER_ADMIN"

\* the stored account a token names
AccountOf(x) ==
    collection_of(x.token.payload.role, users, supervisors, guards)[x.token.payload.user_id]

\* C15: while the isActive flag of an account is false, a protected call with
\* the account's token is never let through, whatever the gate and however
\* often it is tried; with the store reachable it is answered 401 or 403, the
\* flag being read from the store at each call.  Once the flag is true again
\* and the token has not expired, the same token passes its own role's gate.
C15_InactiveNeverPasses ==
    [][\A x \in tokens, gate \in Gates :
          GatedCall(x, gate) =>
            /\ ~AccountOf(x).isActive =>
                  /\ response'.status # 200
                  /\ database = "connected" => response'.status \in {401, 403}
            /\ (AccountOf(x).isActive /\ Authenticated(x)
                  /\ gate.allowed = {x.token.payload.role})
                  => response'.status = 200]_vars

\* the admin's account is switched off, its token has not expired, and its
\* call to the admin gate was answered 401
C15_Witness ==
    /\ response.op = "get_current_admin"
    /\ response.status = 401
    /\ response.detail = "Account is not active"
    /\ ~users["u3"].isActive
    /\ \E x \in tokens : x.token.payload.user_id = "u3" /\ x.token.payload.exp > now

----------------------------------------------------------------------------
(* Adding accounts: POST /add-admin, /add-supervisor, /add-guard *)

\* the e-mail addresses of the requests, each with the text before and after
\* its "@"
AddressParts ==
    [e \in {"bob@yahoo.com", "bob@gmail.com", "amy@gmail.com"} |->
        CASE e = "bob@yahoo.com" -> [local |-> "bob", domain |-> "yahoo.com"]
          [] e = "bob@gmail.com" -> [local |-> "bob", domain |-> "gmail.com"]
          [] e = "amy@gmail.com" -> [local |-> "amy", domain |-> "gmail.com"]]

\* email.endswith("@gmail.com")
ends_with_gmail(email) == AddressParts[email].domain = "gmail.com"

\* email.split("@")[0] + "@gmail.com"
to_gmail(email) ==
    CHOOSE g \in DOMAIN AddressParts :
        AddressParts[g] = [local |-> AddressParts[email].local, domain |-> "gmail.com"]

\* an optional field of a request that is None or "" is falsy
Given(value) == value # Absent /\ value # ""

\* find_one({"$or": or_conditions}) with one condition per contact given
find_existing(coll, email, phone) ==
    {id \in DOMAIN coll : \/ (Given(email) /\ coll[id].email = email)
                          \/ (Given(phone) /\ coll[id].phone = phone)}

\* the unique index on users.email: a document without the field is indexed
\* under null, so the index also keeps apart two documents without an e-mail
users_email_index_allows(us, doc) == \A id \in DOMAIN us : us[id].email # doc.email

\* the _id of an inserted document
IdPool(partition) ==
    CASE partition = "users" -> <<"u1", "u2", "u3", "u4", "u5", "u6", "u7">>
      [] partition = "supervisors" -> <<"s1", "s2", "s3", "s4", "s5">>
      [] partition = "guards" -> <<"g1", "g2", "g3", "g4", "g5">>

NewId(partition, coll) == IdPool(partition)[Cardinality(DOMAIN coll) + 1]

insert_one(coll, id, doc) == [i \in DOMAIN coll \cup {id} |-> IF i = id THEN doc ELSE coll[i]]

Room(coll, initial) == Cardinality(DOMAIN coll) < Cardinality(DOMAIN initial) + MaxAdded

ADD_ADMIN == "add-admin"
ADD_SUPERVISOR == "add-supervisor"
ADD_GUARD == "add-guard"

\* POST /add-admin
AddStateAdmin(token, email, phone, state, password, salt) ==
    LET op == ADD_ADMIN
        auth == get_current_super_admin(token, now, database, users, supervisors, guards)
        existing_admin == {id \in DOMAIN users :
                              users[id].role = "ADMIN" /\ users[id].state = state}
        existing_user == find_existing(users, email, phone)
        hashed_password == hash_password(password, salt, pwd_env)
        admin_record == [email |-> IF Given(email) THEN email ELSE Absent,
                         phone |-> IF Given(phone) THEN phone ELSE Absent,
                         role |-> "ADMIN", state |-> state,
                         passwordHash |-> hashed_password.value,
                         isActive |-> TRUE, lastLogin |-> Never,
                         supervisorId |-> Absent]
    IN
    /\ Room(users, InitUsers)
    /\ UNCHANGED <<now, database, supervisors, guards, otp_tokens, tokens, issue_log,
                   hasher_vars, flight_vars>>
    /\ IF ~auth.ok
       THEN response' = Answer(op, auth.status, auth.detail) /\ UNCHANGED users
       ELSE IF database # "connected"
       THEN response' = Answer(op, 503, "Database not available") /\ UNCHANGED users
       ELSE IF ~Given(email) /\ ~Given(phone)
       THEN response' = Answer(op, 422, "At least email or phone must be provided")
               /\ UNCHANGED users
       ELSE IF existing_admin # {}
       THEN response' = Answer(op, 400, "Admin already exists for state") /\ UNCHANGED users
       ELSE IF \E id \in existing_user :
                  \/ (Given(email) /\ users[id].email = email)
                  \/ (Given(phone) /\ users[id].phone = phone)
       THEN response' = Answer(op, 400, "User already exists") /\ UNCHANGED users
       ELSE IF hashed_password.raised \/ ~users_email_index_allows(users, admin_record)
       THEN response' = Answer(op, 500, "Failed to add admin") /\ UNCHANGED users
       ELSE /\ users' = insert_one(users, NewId("users", users), admin_record)
            /\ response' = Answer(op, 200, "State-wise admin added successfully")

\* POST /add-supervisor
AddSupervisor(token, email, phone, password, salt) ==
    LET op == ADD_SUPERVISOR
        auth == get_current_admin(token, now, database, users, supervisors, guards)
        existing_supervisor == find_existing(supervisors, email, phone)
        hashed_password == hash_password(password, salt, pwd_env)
        supervisor_data_record ==
            [email |-> IF Given(email) THEN email ELSE Absent,
             phone |-> IF Given(phone) THEN phone ELSE Absent,
             role |-> Absent, state |-> Absent,
             passwordHash |-> hashed_password.value,
             isActive |-> TRUE, lastLogin |-> Never,
             supervisorId |-> Absent]
    IN
    /\ Room(supervisors, InitSupervisors)
    /\ UNCHANGED <<now, database, users, guards, otp_tokens, tokens, issue_log, hasher_vars, flight_vars>>
    /\ IF ~auth.ok
       THEN response' = Answer(op, auth.status, auth.detail) /\ UNCHANGED supervisors
       ELSE IF database # "connected"
       THEN response' = Answer(op, 503, "Database not available") /\ UNCHANGED supervisors
       ELSE IF ~Given(email) /\ ~Given(phone)
       THEN response' = Answer(op, 422, "Either email or phone must be provided")
               /\ UNCHANGED supervisors
       ELSE IF \E id \in existing_supervisor :
                  \/ (Given(email) /\ supervisors[id].email = email)
                  \/ (Given(phone) /\ supervisors[id].phone = phone)
       THEN response' = Answer(op, 400, "Supervisor already exists") /\ UNCHANGED supervisors
       ELSE IF hashed_password.raised
       THEN response' = Answer(op, 500, "Failed to add supervisor") /\ UNCHANGED supervisors
       ELSE /\ supervisors' = insert_one(supervisors, NewId("supervisors", supervisors),
                                         supervisor_data_record)
            /\ response' = Answer(op, 200, "Supervisor added successfully")

\* POST /add-guard: the duplicate check looks for the e-mail as it came in, and
\* the e-mail is then rewritten to end in @gmail.com before it is stored
AddGuard(token, email, phone, password, salt) ==
    LET op == ADD_GUARD
        auth == get_current_supervisor(token, now, database, users, supervisors, guards)
        hashed_password == hash_password(password, salt, pwd_env)
        existing_guard == find_existing(guards, email, phone)
        stored_email == IF Given(email) /\ ~ends_with_gmail(email) THEN to_gmail(email)
                        ELSE email
        guard_data_record == [email |-> stored_email, phone |-> phone,
                              role |-> Absent, state |-> Absent,
                              passwordHash |-> hashed_password.value,
                              isActive |-> TRUE, lastLogin |-> Never,
                              supervisorId |-> auth.id]
    IN
    /\ Room(guards, InitGuards)
    /\ UNCHANGED <<now, database, users, supervisors, otp_tokens, tokens, issue_log,
                   hasher_vars, flight_vars>>
    /\ IF ~auth.ok
       THEN response' = Answer(op, auth.status, auth.detail) /\ UNCHANGED guards
       ELSE IF ~Given(email) /\ ~Given(phone)
       THEN \* refused by the validator of SupervisorAddGuardRequest
            response' = Answer(op, 422, "Either email or phone number must be provided")
               /\ UNCHANGED guards
       ELSE IF database # "connected"
       THEN response' = Answer(op, 503, "Database not available") /\ UNCHANGED guards
       ELSE IF hashed_password.raised
       THEN response' = Answer(op, 500, "Failed to add guard") /\ UNCHANGED guards
       ELSE IF existing_guard # {}
       THEN response' = Answer(op, 400, "A guard with the same email or phone already exists.")
               /\ UNCHANGED guards
       ELSE /\ guards' = insert_one(guards, NewId("guards", guards), guard_data_record)
            /\ response' = Answer(op, 200, "Guard added successfully")

RequestEmails == {"", "bob@yahoo.com", "bob@gmail.com"}
RequestPhones == {"", "9000000002"}
RequestStates == {"Haryana", "Punjab"}

AccountInit ==
    /\ now = 0
    /\ database = "connected"
    /\ users = InitUsers
    /\ supervisors = InitSupervisors
    /\ guards = InitGuards
    /\ otp_tokens = {}
    /\ tokens = {SessionOf("u1", InitUsers["u1"], "SUPER_ADMIN"),
                 SessionOf("u3", InitUsers["u3"], "ADMIN"),
                 SessionOf("s1", InitSupervisors["s1"], "SUPERVISOR")}
    /\ response = NoResponse
    /\ issue_log = [e \in {InitUsers[id].email : id \in DOMAIN InitUsers} |-> Never]
    /\ pwd_env = HealthyEnv
    /\ hash_run = NoRun
    /\ settings = DefaultSettings
    /\ requests = NoRequests

AccountNext ==
    \/ \E token \in HeldTokens, email \in RequestEmails, phone \in RequestPhones,
          state \in RequestStates, password \in Passwords, salt \in Salts :
          AddStateAdmin(token, email, phone, state, password, salt)
    \/ \E token \in HeldTokens, email \in RequestEmails, phone \in RequestPhones,
          password \in Passwords, salt \in Salts :
          AddSupervisor(token, email, phone, password, salt)
    \/ \E token \in HeldTokens, email \in RequestEmails, phone \in RequestPhones,
          password \in Passwords, salt \in Salts :
          AddGuard(token, email, phone, password, salt)

AccountSpec == AccountInit /\ [][AccountNext]_vars

\* C19 as stated: after any sequence of add-admin, add-supervisor and add-guard
\* requests, no two stored identities of the same collection share a non-empty
\* e-mail or a non-empty phone.
C19_ContactUniquePerPartition ==
    \A coll \in {users, supervisors, guards} :
        \A i, j \in DOMAIN coll :
            i # j =>
               /\ Given(coll[i].email) => coll[i].email # coll[j].email
               /\ Given(coll[i].phone) => coll[i].phone # coll[j].phone

----------------------------------------------------------------------------
(* Concurrent requests.  The handlers of request-password-change-otp and    *)
(* change-password are taken apart at their awaits on the store; between    *)
(* two awaits of one request any step of another request may run.           *)

\* a handler that has returned: its answer is kept, and of its locals only the
\* challenge a successful change-password consumed
Finished(r, status, detail) ==
    [Idle EXCEPT !.pc = "done", !.op = r.op, !.status = status, !.detail = detail,
                 !.otp_record = IF status = 200 THEN r.otp_record ELSE NoOtp]

\* the dependency and the head of request_password_change_otp, up to and
\* including the rate-limit find_one
IssueBegin(p, token, n) ==
    LET auth == get_current_super_admin(token, now, database, users, supervisors, guards)
        super_admin_email == auth.user.email
        recent_otp == find_recent(otp_tokens, super_admin_email, PASSWORD_CHANGE, now)
        r == [Idle EXCEPT !.op = "request-password-change-otp"]
        otp_data == otp_document(super_admin_email, hash_otp(generate_otp(n)), now)
    IN
    /\ requests[p].pc \in {"idle", "done"}
    /\ requests' = [requests EXCEPT ![p] =
          IF ~auth.ok THEN Finished(r, auth.status, auth.detail)
          ELSE IF database # "connected" THEN Finished(r, 503, "Database not available")
          ELSE IF super_admin_email = Absent
          THEN Finished(r, 400, "Super admin email not found")
          ELSE IF recent_otp # {} THEN Finished(r, 429, "Please wait 1 minute")
          ELSE [r EXCEPT !.pc = "delete_many", !.caller = auth.id, !.otp_data = otp_data]]
    /\ UNCHANGED <<now, database, users, supervisors, guards, otp_tokens, tokens, response,
                   issue_log, hasher_vars, settings>>

\* await otp_collection.delete_many({email, purpose})
IssueDeleteMany(p) ==
    /\ requests[p].pc = "delete_many"
    /\ otp_tokens' = delete_many(otp_tokens, requests[p].otp_data.email, PASSWORD_CHANGE)
    /\ requests' = [requests EXCEPT ![p].pc = "insert_one"]
    /\ UNCHANGED <<now, database, users, supervisors, guards, tokens, response,
                   issue_log, hasher_vars, settings>>

\* await otp_collection.insert_one(otp_data)
IssueInsertOne(p) ==
    /\ requests[p].pc = "insert_one"
    /\ otp_tokens' = otp_tokens \cup
          {[requests[p].otp_data EXCEPT !.id = NewObjectId(otp_tokens, now)]}
    /\ requests' = [requests EXCEPT ![p].pc = "send_otp_email"]
    /\ UNCHANGED <<now, database, users, supervisors, guards, tokens, response,
                   issue_log, hasher_vars, settings>>

\* await email_service.send_otp_email(...) and what follows it; the clean-up
\* delete_one belongs to the branch of a delivery reported as failed
IssueSendEmail(p, smtp) ==
    /\ requests[p].pc = "send_otp_email"
    /\ IF ~send_otp_email(smtp)
       THEN /\ otp_tokens' \in delete_one(otp_tokens, requests[p].otp_data.email,
                                          PASSWORD_CHANGE)
            /\ requests' = [requests EXCEPT ![p] =
                               Finished(@, 500, "Failed to send OTP email")]
       ELSE /\ requests' = [requests EXCEPT ![p] = Finished(@, 200, "OTP sent")]
            /\ UNCHANGED otp_tokens
    /\ UNCHANGED <<now, database, users, supervisors, guards, tokens, response,
                   issue_log, hasher_vars, settings>>

\* the dependency and the head of change_super_admin_password: find_one, then
\* the tests on the record it returned, which decide the next store operation
ChangeBegin(p, token, otp) ==
    LET auth == get_current_super_admin(token, now, database, users, supervisors, guards)
        super_admin_email == auth.user.email
        found == Matching(otp_tokens, super_admin_email, PASSWORD_CHANGE)
        r == [Idle EXCEPT !.op = "change-password", !.otp = otp]
    IN
    /\ requests[p].pc \in {"idle", "done"}
    /\ UNCHANGED <<now, database, users, supervisors, guards, otp_tokens, tokens, response,
                   issue_log, hasher_vars, settings>>
    /\ IF ~auth.ok
       THEN requests' = [requests EXCEPT ![p] = Finished(r, auth.status, auth.detail)]
       ELSE IF database # "connected"
       THEN requests' = [requests EXCEPT ![p] = Finished(r, 503, "Database not available")]
       ELSE IF super_admin_email = Absent
       THEN requests' = [requests EXCEPT ![p] =
                            Finished(r, 400, "Super admin email not found")]
       ELSE IF found = {}
       THEN requests' = [requests EXCEPT ![p] = Finished(r, 400, "No OTP found")]
       ELSE \E otp_record \in found :
            requests' = [requests EXCEPT ![p] =
               [r EXCEPT !.caller = auth.id,
                         !.otp_record = otp_record,
                         !.pc = IF otp_expired(otp_record, now) THEN "delete_expired"
                                ELSE IF attempts_exceeded(otp_record) THEN "delete_capped"
                                ELSE IF ~verify_otp(otp, otp_record.otpHash)
                                THEN "inc_attempts"
                                ELSE "delete_used"]]

\* await otp_collection.delete_one({"_id": ...}) followed by a raise
ChangeDeleteAndRaise(p) ==
    /\ requests[p].pc \in {"delete_expired", "delete_capped"}
    /\ otp_tokens' = delete_by_id(otp_tokens, requests[p].otp_record.id)
    /\ requests' = [requests EXCEPT ![p] =
          IF @.pc = "delete_expired" THEN Finished(@, 400, "OTP has expired")
          ELSE Finished(@, 429, "Maximum OTP attempts exceeded")]
    /\ UNCHANGED <<now, database, users, supervisors, guards, tokens, response,
                   issue_log, hasher_vars, settings>>

\* await otp_collection.update_one({"_id": ...}, {"$inc": {"attempts": 1}})
ChangeIncAttempts(p) ==
    /\ requests[p].pc = "inc_attempts"
    /\ otp_tokens' = inc_attempts(otp_tokens, requests[p].otp_record.id)
    /\ requests' = [requests EXCEPT ![p] = Finished(@, 400, "Invalid OTP")]
    /\ UNCHANGED <<now, database, users, supervisors, guards, tokens, response,
                   issue_log, hasher_vars, settings>>

\* await otp_collection.delete_one({"_id": ...}) of the code that verified;
\* the result of the delete is not looked at
ChangeDeleteUsed(p) ==
    /\ requests[p].pc = "delete_used"
    /\ otp_tokens' = delete_by_id(otp_tokens, requests[p].otp_record.id)
    /\ requests' = [requests EXCEPT ![p].pc = "update_one"]
    /\ UNCHANGED <<now, database, users, supervisors, guards, tokens, response,
                   issue_log, hasher_vars, settings>>

\* hash_password and await users_collection.update_one(...)
ChangeUpdateOne(p, newPassword, salt) ==
    LET new_password_hash == hash_password(newPassword, salt, pwd_env) IN
    /\ requests[p].pc = "update_one"
    /\ IF new_password_hash.raised
       THEN /\ requests' = [requests EXCEPT ![p] =
                               Finished(@, 500, "Failed to change password")]
            /\ UNCHANGED users
       ELSE /\ users' = [users EXCEPT ![requests[p].caller].passwordHash =
                                         new_password_hash.value]
            /\ requests' = [requests EXCEPT ![p] =
                               Finished(@, 200, "Password changed successfully")]
    /\ UNCHANGED <<now, database, supervisors, guards, otp_tokens, tokens, response,
                   issue_log, hasher_vars, settings>>

\* the caller of this specification: one super admin, whose requests all
\* arrive within the same minute
RaceCallers == {"u1"}

RaceInit ==
    /\ now = 0
    /\ database = "connected"
    /\ users = InitUsers
    /\ supervisors = InitSupervisors
    /\ guards = InitGuards
    /\ otp_tokens = {}
    /\ tokens = {Minted("create_access_token",
                        create_access_token(
                            login_token_data(id, InitUsers[id], InitUsers[id].role), 0))
                 : id \in RaceCallers}
    /\ response = NoResponse
    /\ issue_log = [e \in {InitUsers[id].email : id \in DOMAIN InitUsers} |-> Never]
    /\ pwd_env = HealthyEnv
    /\ hash_run = NoRun
    /\ settings = DefaultSettings
    /\ requests = NoRequests

RaceNext ==
    \/ \E p \in Procs, token \in HeldTokens, n \in OtpValues : IssueBegin(p, token, n)
    \/ \E p \in Procs : IssueDeleteMany(p)
    \/ \E p \in Procs : IssueInsertOne(p)
    \/ \E p \in Procs, smtp \in SmtpOutcomes : IssueSendEmail(p, smtp)
    \/ \E p \in Procs, token \in HeldTokens, otp \in OtpStrings : ChangeBegin(p, token, otp)
    \/ \E p \in Procs : ChangeDeleteAndRaise(p)
    \/ \E p \in Procs : ChangeIncAttempts(p)
    \/ \E p \in Procs : ChangeDeleteUsed(p)
    \/ \E p \in Procs, newPassword \in Passwords, salt \in Salts :
          ChangeUpdateOne(p, newPassword, salt)

RaceSpec == RaceInit /\ [][RaceNext]_vars

\* C22 as stated: however the store operations of two concurrent issue requests
\* for the same (contact, purpose) interleave, the store never holds more than
\* one challenge for that pair.
C22_RaceKeepsOneChallenge ==
    \A e \in Contacts : Cardinality(Matching(otp_tokens, e, PASSWORD_CHANGE)) <= 1

\* C23 as stated: of the concurrent change-password requests that present the
\* correct code for one challenge, at most one is answered Ok and changes the
\* password.
C23_OneOkPerChallenge ==
    \A p, q \in Procs :
        (/\ p # q
         /\ requests[p].op = "change-password" /\ requests[q].op = "change-password"
         /\ requests[p].pc = "done" /\ requests[q].pc = "done"
         /\ requests[p].status = 200 /\ requests[q].status = 200)
        => requests[p].otp_record.id # requests[q].otp_record.id

\* C24 as stated: however concurrent verify requests interleave, the attempts
\* counter of a challenge never exceeds the cap of 3 (one wrong code compared
\* per count).
C24_AttemptsWithinCap ==
    \A d \in otp_tokens : d.attempts <= OtpAttemptCap

----------------------------------------------------------------------------
(* The configured OTP parameters.  Settings reads OTP_EXPIRE_MINUTES,       *)
(* OTP_MAX_ATTEMPTS and OTP_RATE_LIMIT_MINUTES from the environment; the    *)
(* routes are the ones above, run by one super admin under every            *)
(* configuration.                                                           *)

\* int(os.getenv(...)): the default, or a value set a little above it
SettingsSpace ==
    [OTP_EXPIRE_MINUTES :
         DefaultSettings.OTP_EXPIRE_MINUTES ..
             DefaultSettings.OTP_EXPIRE_MINUTES + MaxConfigDelta,
     OTP_MAX_ATTEMPTS :
         DefaultSettings.OTP_MAX_ATTEMPTS ..
             DefaultSettings.OTP_MAX_ATTEMPTS + MaxConfigDelta,
     OTP_RATE_LIMIT_MINUTES :
         DefaultSettings.OTP_RATE_LIMIT_MINUTES ..
             DefaultSettings.OTP_RATE_LIMIT_MINUTES + MaxConfigDelta]

ConfigCallers == {"u1"}

ConfigInit ==
    /\ now = 0
    /\ database = "connected"
    /\ users = InitUsers
    /\ supervisors = InitSupervisors
    /\ guards = InitGuards
    /\ otp_tokens = {}
    /\ tokens = {Minted("create_access_token",
                        create_access_token(
                            login_token_data(id, InitUsers[id], InitUsers[id].role), 0))
                 : id \in ConfigCallers}
    /\ response = NoResponse
    /\ issue_log = [e \in {InitUsers[id].email : id \in DOMAIN InitUsers} |-> Never]
    /\ pwd_env = HealthyEnv
    /\ hash_run = NoRun
    /\ settings \in SettingsSpace
    /\ requests = NoRequests

ConfigNext ==
    \/ \E token \in TokenInputs, n \in OtpValues, smtp \in SmtpOutcomes :
          RequestPasswordChangeOtp(token, n, smtp)
    \/ \E token \in TokenInputs, otp \in OtpStrings, newPassword \in Passwords,
          salt \in Salts :
          ChangeSuperAdminPassword(token, otp, newPassword, salt)
    \/ Tick

ConfigSpec == ConfigInit /\ [][ConfigNext]_vars

\* C26 as stated: under every configuration the parameters applied are the
\* configured ones: a stored challenge lives OTP_EXPIRE_MINUTES, a code is
\* issued only when the challenge it replaces is older than
\* OTP_RATE_LIMIT_MINUTES, and a challenge is refused for its attempts only
\* when they have reached OTP_MAX_ATTEMPTS.
C26_ConfiguredParameters ==
    /\ [](\A d \in otp_tokens :
             d.expiresAt - d.createdAt = settings.OTP_EXPIRE_MINUTES)
    /\ [][/\ (response'.op = REQUEST_OTP /\ response'.status = 200)
             => \A d \in otp_tokens \ otp_tokens' :
                   d.createdAt < now - settings.OTP_RATE_LIMIT_MINUTES
          /\ (response'.op = CHANGE_PASSWORD /\ response'.status = 429)
             => \A d \in otp_tokens \ otp_tokens' :
                   d.attempts >= settings.OTP_MAX_ATTEMPTS]_vars

----------------------------------------------------------------------------
(* The life of a challenge.  Time passes and the store's expiry pass runs   *)
(* whenever it has something to remove; the requests come as they please.   *)
(* A code is requested only while the clock of the model can still reach    *)
(* the minute after its expiry.                                             *)

LiveCallers == {"u1", "u2"}

LiveIssue(token, n, smtp) ==
    /\ now + OtpLifetimeMinutes < MaxTime
    /\ RequestPasswordChangeOtp(token, n, smtp)

LiveInit ==
    /\ now = 0
    /\ database = "connected"
    /\ users = InitUsers
    /\ supervisors = InitSupervisors
    /\ guards = InitGuards
    /\ otp_tokens = {}
    /\ tokens = {Minted("create_access_token",
                        create_access_token(
                            login_token_data(id, InitUsers[id], InitUsers[id].role), 0))
                 : id \in LiveCallers}
    /\ response = NoResponse
    /\ issue_log = [e \in {InitUsers[id].email : id \in DOMAIN InitUsers} |-> Never]
    /\ pwd_env = HealthyEnv
    /\ hash_run = NoRun
    /\ settings = DefaultSettings
    /\ requests = NoRequests

LiveNext ==
    \/ \E token \in TokenInputs, n \in OtpValues, smtp \in SmtpOutcomes :
          LiveIssue(token, n, smtp)
    \/ \E token \in TokenInputs, otp \in OtpStrings, newPassword \in Passwords,
          salt \in Salts :
          ChangeSuperAdminPassword(token, otp, newPassword, salt)
    \/ TTLReaper
    \/ Tick

LiveSpec == LiveInit /\ [][LiveNext]_vars /\ WF_vars(TTLReaper) /\ WF_vars(Tick)

\* the _id values insert_one can give in this specification
ChallengeIds == [ts : 0..MaxTime, ctr : 0..Cardinality(LiveCallers)]

Stored(id) == \E d \in otp_tokens : d.id = id

\* C27: every challenge that is stored is removed later on, whatever the
\* callers do or leave undone: by a verification, by a re-issue, or at the
\* latest by the expiry pass of the store once its expiry time has passed.
C27_ChallengeEventuallyRemoved ==
    \A id \in ChallengeIds : Stored(id) ~> ~Stored(id)

\* a challenge was issued, nobody has called since, its expiry time has
\* passed and the store holds it no more
C27_Witness ==
    /\ response.op = REQUEST_OTP /\ response.status = 200
    /\ otp_tokens = {}
    /\ \E e \in Contacts : issue_log[e] # Never /\ now > issue_log[e] + OtpLifetimeMinutes

----------------------------------------------------------------------------
(* Setting the password of another account: PUT /change-user-password       *)
(* (super admin), /change-supervisor-password (admin) and                   *)
(* /change-guard-password (supervisor).                                     *)

\* the documents a filter {field: value} matches
matching_ids(coll, field, value) == {id \in DOMAIN coll : coll[id][field] = value}

\* update_one with $set passwordHash: the first matching document is updated,
\* and which one is first is the store's choice; nothing changes without a match
update_one_password(coll, ids, new_password_hash) ==
    IF ids = {} THEN {coll}
    ELSE {[coll EXCEPT ![id].passwordHash = new_password_hash] : id \in ids}

\* the filter built from the request: the e-mail when it is given, else the phone
criteria_field(email, phone) == IF Given(email) THEN "email" ELSE "phone"
criteria_value(email, phone) == IF Given(email) THEN email ELSE phone

\* guards_collection.find_one({"$and": [{supervisorId: ...}, {"$or": contacts}]})
find_supervised_guard(gs, supervisor_id, email, phone) ==
    {id \in find_existing(gs, email, phone) : gs[id].supervisorId = supervisor_id}

CHANGE_USER_PASSWORD == "change-user-password"
CHANGE_SUPERVISOR_PASSWORD == "change-supervisor-password"
CHANGE_GUARD_PASSWORD == "change-guard-password"

\* PUT /change-user-password: the password is hashed first, then each of the
\* three collections is searched and its first match updated
ChangeUserPassword(token, userEmail, userPhone, newPassword, salt) ==
    LET op == CHANGE_USER_PASSWORD
        auth == get_current_super_admin(token, now, database, users, supervisors, guards)
        new_password_hash == hash_password(newPassword, salt, pwd_env)
        field == criteria_field(userEmail, userPhone)
        value == criteria_value(userEmail, userPhone)
        user == matching_ids(users, field, value)
        supervisor == matching_ids(supervisors, field, value)
        guard == matching_ids(guards, field, value)
    IN
    /\ UNCHANGED <<now, database, otp_tokens, tokens, issue_log, hasher_vars, flight_vars>>
    /\ IF ~auth.ok
       THEN /\ response' = Answer(op, auth.status, auth.detail)
            /\ UNCHANGED <<users, supervisors, guards>>
       ELSE IF ~Given(userEmail) /\ ~Given(userPhone)
       THEN /\ response' = Answer(op, 422, "Either userEmail or userPhone must be provided")
            /\ UNCHANGED <<users, supervisors, guards>>
       ELSE IF database # "connected"
       THEN /\ response' = Answer(op, 503, "Database not available")
            /\ UNCHANGED <<users, supervisors, guards>>
       ELSE IF new_password_hash.raised
       THEN /\ response' = Answer(op, 500, "Failed to change user password")
            /\ UNCHANGED <<users, supervisors, guards>>
       ELSE IF user = {} /\ supervisor = {} /\ guard = {}
       THEN /\ response' = Answer(op, 404, "User not found in any collection")
            /\ UNCHANGED <<users, supervisors, guards>>
       ELSE /\ users' \in update_one_password(users, user, new_password_hash.value)
            /\ supervisors' \in update_one_password(supervisors, supervisor,
                                                    new_password_hash.value)
            /\ guards' \in update_one_password(guards, guard, new_password_hash.value)
            /\ response' = Answer(op, 200, "Password changed successfully")

\* PUT /change-supervisor-password: the supervisor is found by e-mail or phone
\* and updated, and then users_collection.update_one runs with the same contact
ChangeSupervisorPassword(token, userEmail, userPhone, newPassword, salt) ==
    LET op == CHANGE_SUPERVISOR_PASSWORD
        auth == get_current_admin(token, now, database, users, supervisors, guards)
        supervisor == find_existing(supervisors, userEmail, userPhone)
        new_password_hash == hash_password(newPassword, salt, pwd_env)
        user == matching_ids(users, criteria_field(userEmail, userPhone),
                             criteria_value(userEmail, userPhone))
    IN
    /\ UNCHANGED <<now, database, guards, otp_tokens, tokens, issue_log, hasher_vars,
                   flight_vars>>
    /\ IF ~auth.ok
       THEN /\ response' = Answer(op, auth.status, auth.detail)
            /\ UNCHANGED <<users, supervisors>>
       ELSE IF ~Given(userEmail) /\ ~Given(userPhone)
       THEN /\ response' = Answer(op, 422, "Either userEmail or userPhone must be provided")
            /\ UNCHANGED <<users, supervisors>>
       ELSE IF database # "connected"
       THEN /\ response' = Answer(op, 503, "Database not available")
            /\ UNCHANGED <<users, supervisors>>
       ELSE IF supervisor = {}
       THEN /\ response' = Answer(op, 404, "Supervisor not found")
            /\ UNCHANGED <<users, supervisors>>
       ELSE IF new_password_hash.raised
       THEN /\ response' = Answer(op, 500, "Failed to change supervisor password")
            /\ UNCHANGED <<users, supervisors>>
       ELSE /\ supervisors' \in update_one_password(supervisors, supervisor,
                                                    new_password_hash.value)
            /\ users' \in update_one_password(users, user, new_password_hash.value)
            /\ response' = Answer(op, 200, "Password changed successfully")

\* PUT /change-guard-password: the guard is found among the caller's own guards
\* and updated, and then users_collection.update_one runs with the same contact
ChangeGuardPassword(token, guardEmail, guardPhone, newPassword, salt) ==
    LET op == CHANGE_GUARD_PASSWORD
        auth == get_current_supervisor(token, now, database, users, supervisors, guards)
        guard == find_supervised_guard(guards, auth.id, guardEmail, guardPhone)
        new_password_hash == hash_password(newPassword, salt, pwd_env)
        user == matching_ids(users, criteria_field(guardEmail, guardPhone),
                             criteria_value(guardEmail, guardPhone))
    IN
    /\ UNCHANGED <<now, database, supervisors, otp_tokens, tokens, issue_log, hasher_vars,
                   flight_vars>>
    /\ IF ~auth.ok
       THEN /\ response' = Answer(op, auth.status, auth.detail)
            /\ UNCHANGED <<users, guards>>
       ELSE IF ~Given(guardEmail) /\ ~Given(guardPhone)
       THEN /\ response' = Answer(op, 422, "Either guardEmail or guardPhone must be provided")
            /\ UNCHANGED <<users, guards>>
       ELSE IF database # "connected"
       THEN /\ response' = Answer(op, 503, "Database not available")
            /\ UNCHANGED <<users, guards>>
       ELSE IF guard = {}
       THEN /\ response' = Answer(op, 404, "Guard not found or not under your supervision")
            /\ UNCHANGED <<users, guards>>
       ELSE IF new_password_hash.raised
       THEN /\ response' = Answer(op, 500, "Failed to change guard password")
            /\ UNCHANGED <<users, guards>>
       ELSE /\ guards' \in update_one_password(guards, guard, new_password_hash.value)
            /\ users' \in update_one_password(users, user, new_password_hash.value)
            /\ response' = Answer(op, 200, "Password changed successfully")

\* the accounts of the password specification: a super admin and an admin in
\* users, two supervisors, and one guard under each supervisor
PasswordUsers ==
    [id \in {"u1", "u3"} |->
        IF id = "u1" THEN Account("sa1@lh.io.in", "SUPER_ADMIN")
        ELSE Account("bob@gmail.com", "ADMIN")]

PasswordSupervisors ==
    [id \in {"s1", "s2"} |->
        IF id = "s1" THEN Account("sup@lh.io.in", Absent) ELSE Account("sup2@lh.io.in", Absent)]

PasswordGuards ==
    [id \in {"g1", "g2"} |->
        IF id = "g1"
        THEN [Account("", Absent) EXCEPT !.phone = "9000000002", !.supervisorId = "s1"]
        ELSE [Account("amy@gmail.com", Absent) EXCEPT !.supervisorId = "s2"]]

PasswordEmails == {"", "bob@gmail.com", "amy@gmail.com"}
PasswordPhones == {"", "9000000002"}

PasswordInit ==
    /\ now = 0
    /\ database = "connected"
    /\ users = PasswordUsers
    /\ supervisors = PasswordSupervisors
    /\ guards = PasswordGuards
    /\ otp_tokens = {}
    /\ tokens = {SessionOf("u1", PasswordUsers["u1"], "SUPER_ADMIN"),
                 SessionOf("u3", PasswordUsers["u3"], "ADMIN"),
                 SessionOf("s1", PasswordSupervisors["s1"], "SUPERVISOR"),
                 SessionOf("g1", PasswordGuards["g1"], "GUARD")}
    /\ response = NoResponse
    /\ issue_log = [e \in {PasswordUsers[id].email : id \in DOMAIN PasswordUsers} |-> Never]
    /\ pwd_env = HealthyEnv
    /\ hash_run = NoRun
    /\ settings = DefaultSettings
    /\ requests = NoRequests

PasswordNext ==
    \/ \E token \in HeldTokens, email \in PasswordEmails, phone \in PasswordPhones,
          password \in Passwords, salt \in Salts :
          ChangeUserPassword(token, email, phone, password, salt)
    \/ \E token \in HeldTokens, email \in PasswordEmails, phone \in PasswordPhones,
          password \in Passwords, salt \in Salts :
          ChangeSupervisorPassword(token, email, phone, password, salt)
    \/ \E token \in HeldTokens, email \in PasswordEmails, phone \in PasswordPhones,
          password \in Passwords, salt \in Salts :
          ChangeGuardPassword(token, email, phone, password, salt)
    \/ \E token \in HeldTokens, email \in PasswordEmails, phone \in PasswordPhones,
          password \in Passwords, salt \in Salts :
          AddSupervisor(token, email, phone, password, salt)
    \/ \E token \in HeldTokens, email \in PasswordEmails, phone \in PasswordPhones,
          password \in Passwords, salt \in Salts :
          AddGuard(token, email, phone, password, salt)

PasswordSpec == PasswordInit /\ [][PasswordNext]_vars

\* a request of the password specification made with the token
RequestWith(token, email, phone, password, salt) ==
    \/ ChangeUserPassword(token, email, phone, password, salt)
    \/ ChangeSupervisorPassword(token, email, phone, password, salt)
    \/ ChangeGuardPassword(token, email, phone, password, salt)
    \/ AddSupervisor(token, email, phone, password, salt)
    \/ AddGuard(token, email, phone, password, salt)

\* the stored hash of the account the token names
OwnHash(token) ==
    collection_of(token.payload.role, users, supervisors, guards)[token.payload.user_id]
        .passwordHash

\* C21 as stated: no request made with an ADMIN, SUPERVISOR or GUARD token
\* changes the password hash of the account that token names; only a super
\* admin can change its own password.
C21_OnlySuperAdminChangesOwn ==
    [][\A token \in HeldTokens, email \in PasswordEmails, phone \in PasswordPhones,
          password \in Passwords, salt \in Salts :
          (/\ token.payload.role \in {"ADMIN", "SUPERVISOR", "GUARD"}
           /\ RequestWith(token, email, phone, password, salt))
          => OwnHash(token)' = OwnHash(token)]_vars

\* C25 as stated: a change-guard-password request of supervisor S changes the
\* password hash only of a guard whose supervisorId is S and whose e-mail or
\* phone is the one given, and answers 404 when S has no such guard, whoever
\* else has that contact.
C25_GuardPasswordScoped ==
    [][\A token \in HeldTokens, email \in PasswordEmails, phone \in PasswordPhones,
          password \in Passwords, salt \in Salts :
          ChangeGuardPassword(token, email, phone, password, salt) =>
             LET S == token.payload.user_id
                 own == {id \in DOMAIN guards :
                            /\ guards[id].supervisorId = S
                            /\ \/ (Given(email) /\ guards[id].email = email)
                               \/ (Given(phone) /\ guards[id].phone = phone)}
             IN /\ \A id \in DOMAIN guards : guards'[id] # guards[id] => id \in own
                /\ users' = users
                /\ supervisors' = supervisors
                /\ (token.payload.role = "SUPERVISOR" /\ own = {}
                    /\ (Given(email) \/ Given(phone)))
                   => response'.status = 404]_vars

\* C29 as stated: no sequence of requests made with SUPERVISOR or ADMIN tokens
\* changes the password hash of a document of the users collection, where the
\* ADMIN and SUPER_ADMIN accounts are stored.
C29_LowerRolesLeaveUsersAlone ==
    [][\A token \in HeldTokens, email \in PasswordEmails, phone \in PasswordPhones,
          password \in Passwords, salt \in Salts :
          (/\ token.payload.role \in {"ADMIN", "SUPERVISOR"}
           /\ RequestWith(token, email, phone, password, salt))
          => \A id \in DOMAIN users : users'[id].passwordHash = users[id].passwordHash]_vars

----------------------------------------------------------------------------
(* Sessions across password changes: every account logged in at 0, then the *)
(* four password routes, the role gates and the clock.                      *)

\* the contacts the password requests name: each logged-in account, by the
\* contact it is stored under
SessionContacts ==
    {<<"sa1@lh.io.in", "">>, <<"bob@gmail.com", "">>, <<"sup@lh.io.in", "">>,
     <<"", "9000000002">>}

\* the gates declared for a single role
SessionGates == {gate \in Gates : gate.name # "require_roles" /\ Cardinality(gate.allowed) = 1}

SessionInit ==
    /\ now = 0
    /\ database = "connected"
    /\ users = PasswordUsers
    /\ supervisors = PasswordSupervisors
    /\ guards = PasswordGuards
    /\ otp_tokens = {}
    /\ tokens = {SessionOf("u1", PasswordUsers["u1"], "SUPER_ADMIN"),
                 SessionOf("u3", PasswordUsers["u3"], "ADMIN"),
                 SessionOf("s1", PasswordSupervisors["s1"], "SUPERVISOR"),
                 SessionOf("g1", PasswordGuards["g1"], "GUARD")}
    /\ response = NoResponse
    /\ issue_log = [e \in {PasswordUsers[id].email : id \in DOMAIN PasswordUsers} |-> Never]
    /\ pwd_env = HealthyEnv
    /\ hash_run = NoRun
    /\ settings = DefaultSettings
    /\ requests = NoRequests

SessionNext ==
    \/ \E token \in HeldTokens : RequestPasswordChangeOtp(token, 0, "sent")
    \/ \E token \in HeldTokens, newPassword \in Passwords, salt \in Salts :
          ChangeSuperAdminPassword(token, generate_otp(0), newPassword, salt)
    \/ \E token \in HeldTokens, c \in SessionContacts, password \in Passwords, salt \in Salts :
          ChangeUserPassword(token, c[1], c[2], password, salt)
    \/ \E token \in HeldTokens, c \in SessionContacts, password \in Passwords, salt \in Salts :
          ChangeSupervisorPassword(token, c[1], c[2], password, salt)
    \/ \E token \in HeldTokens, c \in SessionContacts, password \in Passwords, salt \in Salts :
          ChangeGuardPassword(token, c[1], c[2], password, salt)
    \/ \E x \in tokens, gate \in SessionGates : GatedCall(x, gate)
    \/ GateAdvance

SessionSpec == SessionInit /\ [][SessionNext]_vars

\* C28: an access token passes validation and the role gate exactly while its
\* own expiry lies ahead and its role is the gate's, whatever password changes
\* its account has gone through since it was issued; from its expiry on it is
\* refused by every gate.
C28_StatelessAccessTokens ==
    [][\A x \in tokens, gate \in SessionGates :
          GatedCall(x, gate) =>
             (response'.status = 200
                 <=> (x.token.payload.exp > now /\ x.token.payload.role \in gate.allowed))]_vars

\* every logged-in account has had its password changed after its login, and a
\* token of that login has just passed its gate in the last minute of its life
C28_Witness ==
    /\ \A x \in tokens : AccountOf(x).passwordHash # InitialHash
    /\ response.op \in {gate.name : gate \in SessionGates}
    /\ response.status = 200
    /\ now = ACCESS_TOKEN_EXPIRE_MINUTES - 1

====
